---- MODULE Spec2Model ----
(***************************************************************************)
(* A model of the news portal's memory-aware cache                         *)
(* (src/utils/cache-manager.py), its ingestion orchestrator and its        *)
(* extraction chain (src/app.py).                                          *)
(***************************************************************************)
EXTENDS Integers, Sequences, FiniteSets, TLC

VARIABLES
    max_size,         \* MemoryAwareLRUCache.max_size, fixed by the constructor
    max_memory_bytes, \* MemoryAwareLRUCache.max_memory_bytes, fixed by the constructor
    cache,            \* MemoryAwareLRUCache._cache: entries, least recently used first
    current_memory,   \* MemoryAwareLRUCache._current_memory
    tags_index,       \* MemoryAwareLRUCache._tags: tag -> set of keys
    clock,            \* time.time(), in ticks
    log,              \* what the last cache operation did: removals by cause, compressions
    global_seen_articles, \* app.py global dedup cache: records in insertion order
    wall_clock,       \* get_current_vietnam_datetime(), in hours
    pc,               \* where collect_news_enhanced is: "idle" or "gather"
    call,             \* the arguments of the collect call in progress or last made
    tasks,            \* per source of the call: the task's status and result
    elapsed,          \* time the call in progress has spent awaiting its tasks
    admitted,         \* all_news before the final sort
    all_news,         \* the list the last collect call returned
    ext_pc,           \* where the extraction call is: the stage about to run
    ext_call,         \* its arguments and the libraries available to it
    ext_content,      \* what fetch_with_aiohttp returned
    extracted_content, \* length of extract_content_enhanced's extracted_content
    ext_tried,        \* the strategies run so far, each with what it yielded
    ext_result,       \* what the extraction call returned
    norm_input,       \* the string handed to normalize_title
    norm_output,      \* what normalize_title returned, then what it returned for that
    thr,              \* per request thread: where its is_duplicate_article_global call is
    cleared,          \* whether the memory optimizer has cleared global_seen_articles
    lock,             \* the threads inside `with self._lock` of the cache
    sweeper,          \* where cleanup_worker is in clear_expired
    fg,               \* where the foreground thread is in delete
    rss_feeds,        \* what each source's feed holds while the requests are made
    user_news_cache,  \* per user id: the list saved by the user's last news request
    user_last_detail_cache, \* per user id: the article of the user's last detail request
    issued,           \* per user: the ids and links of the user's last news response
    request_seq,      \* number of news requests served; orders the saved timestamps
    resp,             \* the last request served and the response to it
    rate_limits,      \* per terminal session: the deque of request times
    rate_now,         \* time.time() of the terminal server
    executed,         \* per terminal session: the times of the commands executed
    rate_reply        \* what the last terminal_command was answered

cacheVars == <<max_size, max_memory_bytes, cache, current_memory, tags_index, clock, log>>
collectVars == <<global_seen_articles, wall_clock, pc, call, tasks, elapsed, admitted, all_news>>

extractVars == <<ext_pc, ext_call, ext_content, extracted_content, ext_tried, ext_result>>

normVars == <<norm_input, norm_output>>

rateVars == <<rate_limits, rate_now, executed, rate_reply>>

raceVars == <<thr, cleared>>

sweepVars == <<lock, sweeper, fg>>

concVars == <<raceVars, sweepVars>>

apiVars == <<rss_feeds, user_news_cache, user_last_detail_cache, issued, request_seq, resp>>

vars == <<cacheVars, collectVars, extractVars, normVars, rateVars, concVars, apiVars>>

(***************************************************************************)
(* Bounds of the cache model.                                              *)
(***************************************************************************)
\* the limits the constructor is given: a cache of two entries, and a cache of
\* three entries whose byte ceiling is below the size of the large value
SmallMaxSize == 2
SmallMaxMemory == 13
WideMaxSize == 3
WideMaxMemory == 8
compression_threshold == 4
MaxClock == 2
TickStep == 2

Keys == {"k1", "k2", "k3"}
TagNames == {"t"}
\* the tags each key is stored with
TagsFor(key) == IF key = "k3" THEN <<>> ELSE <<"t">>

\* CachePriority
CRITICAL == 1
HIGH == 2
MEDIUM == 3
LOW == 4
DISPOSABLE == 5
CachePriority == {CRITICAL, HIGH, MEDIUM, LOW, DISPOSABLE}
InputPriorities == {CRITICAL, MEDIUM, DISPOSABLE}

\* Optional[float] = None
NoTTL == 0 - 1
InputTTLs == {NoTTL, 0, 1}
\* default_ttl: Optional[float] = None
default_ttl == NoTTL

(***************************************************************************)
(* Values.  A value is an object; pickle.dumps and gzip.compress turn it   *)
(* into other things, of the sizes given here.                             *)
(***************************************************************************)
ValueIds == {"s", "c"}
Obj(id) == [form |-> "object", id |-> id]
NoneValue == [form |-> "none", id |-> "none"]
Values == {Obj(id) : id \in ValueIds}

pickle_dumps(v) == [form |-> "pickled", id |-> v.id]
gzip_compress(b) == [form |-> "gzipped", id |-> b.id]
gzip_decompress(b) == [form |-> "pickled", id |-> b.id]
pickle_loads(b) == [form |-> "object", id |-> b.id]

\* "b" compresses to exactly 80% of its serialized size
PickledLen(id) ==
    CASE id = "s" -> 3 [] id = "c" -> 10 [] id = "u" -> 6 [] id = "b" -> 5 [] OTHER -> 1
GzippedLen(id) ==
    CASE id = "s" -> 3 [] id = "c" -> 4 [] id = "u" -> 6 [] id = "b" -> 4 [] OTHER -> 1
len(b) == IF b.form = "gzipped" THEN GzippedLen(b.id) ELSE PickledLen(b.id)

(***************************************************************************)
(* CacheEntry                                                              *)
(***************************************************************************)
age(e, now) == now - e.created_at
idle_time(e, now) == now - e.last_accessed
is_expired(e, now) == IF e.ttl = NoTTL THEN FALSE ELSE age(e, now) > e.ttl

\* "ttl or self.default_ttl": None and 0 are both falsy
ttl_or_default(ttl, dflt) == IF ttl = NoTTL \/ ttl = 0 THEN dflt ELSE ttl

(***************************************************************************)
(* The table is a sequence of entries in OrderedDict order.  The helpers   *)
(* work on a record S = [cache, mem, tags, log].                           *)
(***************************************************************************)
HasKey(c, k) == \E i \in 1..Len(c) : c[i].key = k
IndexOf(c, k) == CHOOSE i \in 1..Len(c) : c[i].key = k
EntryOf(c, k) == c[IndexOf(c, k)]
Without(c, k) == SelectSeq(c, LAMBDA e : e.key # k)
KeysOf(c) == [i \in 1..Len(c) |-> c[i].key]
SeqToSet(s) == {s[i] : i \in 1..Len(s)}
SumSizes(c) == LET RECURSIVE Sum(_)
                   Sum(i) == IF i = 0 THEN 0 ELSE c[i].size_bytes + Sum(i - 1)
               IN  Sum(Len(c))

\* a tag loop that leaves a tag without keys in the index
RECURSIVE UntagKeepEmpty(_, _, _)
UntagKeepEmpty(tg, tagList, key) ==
    IF tagList = <<>> THEN tg
    ELSE LET t == Head(tagList)
             cur == IF t \in DOMAIN tg THEN tg[t] ELSE {}
             tg2 == [x \in (DOMAIN tg) \cup {t} |-> IF x = t THEN cur \ {key} ELSE tg[x]]
         IN  UntagKeepEmpty(tg2, Tail(tagList), key)

\* the tag loop of _remove_entry: discard the key, delete the tag when empty
RECURSIVE UntagAll(_, _, _)
UntagAll(tg, tagList, key) ==
    IF tagList = <<>> THEN tg
    ELSE LET t == Head(tagList)
             cur == IF t \in DOMAIN tg THEN tg[t] ELSE {}
             left == cur \ {key}
             tg2 == IF left = {}
                    THEN [x \in (DOMAIN tg) \ {t} |-> tg[x]]
                    ELSE [x \in (DOMAIN tg) \cup {t} |-> IF x = t THEN left ELSE tg[x]]
         IN  UntagAll(tg2, Tail(tagList), key)

\* the tag loop of set: self._tags[tag].add(key)
RECURSIVE TagAll(_, _, _)
TagAll(tg, tagList, key) ==
    IF tagList = <<>> THEN tg
    ELSE LET t == Head(tagList)
             cur == IF t \in DOMAIN tg THEN tg[t] ELSE {}
             tg2 == [x \in (DOMAIN tg) \cup {t} |-> IF x = t THEN cur \cup {key} ELSE tg[x]]
         IN  TagAll(tg2, Tail(tagList), key)

remove_entry_no_accounting(S, key, cause) ==
    IF ~HasKey(S.cache, key) THEN S
    ELSE LET e == EntryOf(S.cache, key)
         IN  [cache   |-> Without(S.cache, key),
              mem     |-> S.mem,
              tags    |-> UntagAll(S.tags, e.tags, key),
              log     |-> Append(S.log, [key |-> key, priority |-> e.priority, cause |-> cause])]

remove_entry(S, key, cause) ==
    IF ~HasKey(S.cache, key) THEN S
    ELSE LET e == EntryOf(S.cache, key)
         IN  [cache   |-> Without(S.cache, key),
              mem     |-> S.mem - e.size_bytes,
              tags    |-> UntagAll(S.tags, e.tags, key),
              log     |-> Append(S.log, [key |-> key, priority |-> e.priority, cause |-> cause])]

RECURSIVE RemoveKeys(_, _, _)
RemoveKeys(S, keys, cause) ==
    IF keys = <<>> THEN S
    ELSE RemoveKeys(remove_entry(S, Head(keys), cause), Tail(keys), cause)

(***************************************************************************)
(* clear_expired and the eviction helpers.                                 *)
(***************************************************************************)
ExpiredKeys(c, now) == KeysOf(SelectSeq(c, LAMBDA e : is_expired(e, now)))

clear_expired(S, now) == RemoveKeys(S, ExpiredKeys(S.cache, now), "expired")

\* _evict_lru_entries(count): the first `count` entries that are not CRITICAL
RECURSIVE LruVictims(_, _)
LruVictims(c, count) ==
    IF c = <<>> \/ count = 0 THEN <<>>
    ELSE IF Head(c).priority # CRITICAL
         THEN <<Head(c).key>> \o LruVictims(Tail(c), count - 1)
         ELSE LruVictims(Tail(c), count)

\* an eviction that takes the most recently used entries
evict_mru_entries(S, count) ==
    LET keys == LruVictims([i \in 1..Len(S.cache) |-> S.cache[Len(S.cache) + 1 - i]], count)
    IN  [S |-> RemoveKeys(S, keys, "lru"), ok |-> Len(keys) > 0]

\* an eviction that removes nothing and reports success
evict_lru_entries_none(S, count) == [S |-> S, ok |-> TRUE]

evict_lru_entries(S, count) ==
    LET keys == LruVictims(S.cache, count)
    IN  [S |-> RemoveKeys(S, keys, "lru"), ok |-> Len(keys) > 0]

\* _evict_by_priority(priorities, target_bytes): target10 is ten times the
\* target, NoTarget stands for None
NoTarget == 0 - 1
RECURSIVE PriorityVictims(_, _, _, _)
PriorityVictims(c, priorities, target10, freed) ==
    IF c = <<>> THEN <<>>
    ELSE LET e == Head(c) IN
         IF e.priority \in priorities
         THEN LET freed2 == freed + e.size_bytes IN
              IF target10 # NoTarget /\ target10 # 0 /\ 10 * freed2 >= target10
              THEN <<e.key>>
              ELSE <<e.key>> \o PriorityVictims(Tail(c), priorities, target10, freed2)
         ELSE PriorityVictims(Tail(c), priorities, target10, freed)

evict_by_priority(S, priorities, target10) ==
    LET keys == PriorityVictims(S.cache, priorities, target10, 0)
    IN  [S |-> RemoveKeys(S, keys, "priority"), count |-> Len(keys)]

\* the sort key of _evict_memory_based, compared as Python compares tuples
MemKeyLess(a, b, now) ==
    \/ a.priority < b.priority
    \/ a.priority = b.priority /\ idle_time(a, now) < idle_time(b, now)
    \/ a.priority = b.priority /\ idle_time(a, now) = idle_time(b, now)
         /\ (0 - a.size_bytes) < (0 - b.size_bytes)

\* list.sort(key=..., reverse=True): descending, equal keys keep their order
RECURSIVE InsertDesc(_, _, _)
InsertDesc(sorted, e, now) ==
    IF sorted = <<>> THEN <<e>>
    ELSE IF MemKeyLess(Head(sorted), e, now)
         THEN <<e>> \o sorted
         ELSE <<Head(sorted)>> \o InsertDesc(Tail(sorted), e, now)

RECURSIVE SortForEviction(_, _)
SortForEviction(c, now) ==
    IF c = <<>> THEN <<>>
    ELSE InsertDesc(SortForEviction(SubSeq(c, 1, Len(c) - 1), now), c[Len(c)], now)

RECURSIVE MemoryVictims(_, _, _)
MemoryVictims(entries, target10, freed) ==
    IF entries = <<>> THEN [keys |-> <<>>, freed |-> freed]
    ELSE LET e == Head(entries) IN
         IF e.priority # CRITICAL
         THEN LET freed2 == freed + e.size_bytes IN
              IF 10 * freed2 >= target10
              THEN [keys |-> <<e.key>>, freed |-> freed2]
              ELSE LET rest == MemoryVictims(Tail(entries), target10, freed2)
                   IN  [keys |-> <<e.key>> \o rest.keys, freed |-> rest.freed]
         ELSE MemoryVictims(Tail(entries), target10, freed)

evict_memory_based(S, target10, now) ==
    LET v == MemoryVictims(SortForEviction(S.cache, now), target10, 0)
    IN  [S |-> RemoveKeys(S, v.keys, "memory"), ok |-> 10 * v.freed >= target10]

\* _compress_large_entries: gzipOk is whether gzip.compress returns
CompressEntry(e, gzipOk) ==
    LET compressed_data == gzip_compress(e.value) IN
    IF ~e.compressed /\ e.size_bytes > compression_threshold /\ e.priority # CRITICAL
       /\ gzipOk /\ 10 * len(compressed_data) < 8 * e.size_bytes
    THEN [e EXCEPT !.value = compressed_data, !.size_bytes = len(compressed_data),
                   !.compressed = TRUE]
    ELSE e

RECURSIVE CompressLoop(_, _, _)
CompressLoop(S, i, gzipOk) ==
    IF i > Len(S.cache) THEN S
    ELSE LET e == S.cache[i]
             e2 == CompressEntry(e, gzipOk)
             memory_saved == e.size_bytes - e2.size_bytes
         IN  IF e2 = e THEN CompressLoop(S, i + 1, gzipOk)
             ELSE CompressLoop([S EXCEPT !.cache[i] = e2,
                                         !.mem = S.mem - memory_saved,
                                         !.log = Append(S.log, [key |-> e.key,
                                                   priority |-> e.priority,
                                                   cause |-> "compressed"])],
                               i + 1, gzipOk)

compress_large_entries(S, gzipOk) == CompressLoop(S, 1, gzipOk)

(***************************************************************************)
(* optimize_memory(target): target5 is five times the target in bytes.     *)
(***************************************************************************)
NotYetFreed(S, initial_memory, target5) == 5 * S.mem > 5 * initial_memory - target5

\* step 4: while over target and not empty, remove next(iter(self._cache))
RECURSIVE OptimizeLruLoop(_, _, _)
OptimizeLruLoop(S, initial_memory, target5) ==
    IF NotYetFreed(S, initial_memory, target5) /\ Len(S.cache) > 0
    THEN OptimizeLruLoop(remove_entry(S, S.cache[1].key, "optimize_lru"), initial_memory, target5)
    ELSE S

optimize_memory(S, target5, now, gzipOk) ==
    LET initial_memory == S.mem
        S1 == clear_expired(S, now)
        S2 == IF NotYetFreed(S1, initial_memory, target5)
              THEN evict_by_priority(S1, {DISPOSABLE, LOW}, NoTarget).S
              ELSE S1
        S3 == IF NotYetFreed(S2, initial_memory, target5)
              THEN compress_large_entries(S2, gzipOk)
              ELSE S2
    IN  IF NotYetFreed(S3, initial_memory, target5)
        THEN OptimizeLruLoop(S3, initial_memory, target5)
        ELSE S3

\* a pressure check that also optimizes in the warning band, for 10% of the ceiling
check_memory_pressure_on_warning(S, now, gzipOk) ==
    IF 100 * S.mem > 95 * max_memory_bytes
    THEN optimize_memory(S, max_memory_bytes, now, gzipOk)
    ELSE IF 100 * S.mem > 80 * max_memory_bytes
         THEN optimize_memory(S, max_memory_bytes \div 2, now, gzipOk)
         ELSE S

\* _check_memory_pressure: past 95% run optimize_memory for 20% of the ceiling;
\* between 80% and 95% only the pressure handlers are called
check_memory_pressure(S, now, gzipOk) ==
    IF 100 * S.mem > 95 * max_memory_bytes
    THEN optimize_memory(S, max_memory_bytes, now, gzipOk)
    ELSE S

\* _prepare_value -> (serialized, size_bytes, compressed)
prepare_value(value, gzipOk) ==
    LET serialized == pickle_dumps(value)
        size_bytes == len(serialized)
        compressed_data == gzip_compress(serialized)
    IN  IF size_bytes > compression_threshold /\ gzipOk
           /\ 10 * len(compressed_data) < 8 * size_bytes
        THEN [value |-> compressed_data, size_bytes |-> len(compressed_data), compressed |-> TRUE]
        ELSE [value |-> serialized, size_bytes |-> size_bytes, compressed |-> FALSE]

\* _decompress_value: gunzip then unpickle, or unpickle alone
decompress_value(value) ==
    IF value.form = "gzipped" THEN pickle_loads(gzip_decompress(value))
    ELSE IF value.form = "pickled" THEN pickle_loads(value)
    ELSE value

\* _ensure_space(required_bytes, priority) -> [S, ok]
ensure_space(S, required_bytes, priority, now) ==
    LET a == IF Len(S.cache) >= max_size
             THEN evict_lru_entries(S, 1)
             ELSE [S |-> S, ok |-> TRUE]
    IN  IF ~a.ok THEN [S |-> a.S, ok |-> FALSE]
        ELSE IF a.S.mem + required_bytes > max_memory_bytes
        THEN LET target10 == 10 * required_bytes + max_memory_bytes
                 S1 == clear_expired(a.S, now)
                 evictable == {p \in CachePriority : p > priority}
                 b == evict_by_priority(S1, evictable, target10)
             IN  IF b.count = 0
                 THEN evict_memory_based(b.S, target10, now)
                 ELSE [S |-> b.S, ok |-> TRUE]
        ELSE [S |-> a.S, ok |-> TRUE]

StateRec == [cache |-> cache, mem |-> current_memory, tags |-> tags_index, log |-> <<>>]

Commit(S) ==
    /\ UNCHANGED <<collectVars, extractVars, normVars, rateVars, concVars, apiVars, max_size, max_memory_bytes>>
    /\ cache' = S.cache
    /\ current_memory' = S.mem
    /\ tags_index' = S.tags
    /\ log' = S.log

(***************************************************************************)
(* The public operations of MemoryAwareLRUCache, each under self._lock.    *)
(***************************************************************************)
\* get(key): what it returns and the table it leaves
get_result(S, key, now) ==
    IF ~HasKey(S.cache, key)
    THEN [S |-> S, hit |-> FALSE, value |-> NoneValue]
    ELSE LET entry == EntryOf(S.cache, key) IN
         IF is_expired(entry, now)
         THEN [S |-> remove_entry(S, key, "expired"), hit |-> FALSE, value |-> NoneValue]
         ELSE LET touched == [entry EXCEPT !.last_accessed = now]
              IN  [S     |-> [S EXCEPT !.cache = Append(Without(S.cache, key), touched)],
                   hit   |-> TRUE,
                   value |-> IF entry.compressed THEN decompress_value(entry.value)
                             ELSE entry.value]

\* set up to the insertion of the entry (lines 170-207): whether it stored and
\* the table it hands to _check_memory_pressure
insert_entry(S, key, value, ttl, priority, tags, now, gzipOk) ==
    IF value = NoneValue THEN [S |-> S, ok |-> FALSE]
    ELSE LET p == prepare_value(value, gzipOk)
             entry == [key |-> key, value |-> p.value, created_at |-> now,
                       last_accessed |-> now, priority |-> priority,
                       ttl |-> ttl_or_default(ttl, default_ttl), size_bytes |-> p.size_bytes,
                       compressed |-> p.compressed, tags |-> tags]
             sp == ensure_space(S, p.size_bytes, priority, now)
         IN  IF ~sp.ok THEN [S |-> sp.S, ok |-> FALSE]
             ELSE LET S1 == IF HasKey(sp.S.cache, key)
                            THEN remove_entry(sp.S, key, "replace")
                            ELSE sp.S
                  IN  [S |-> [S1 EXCEPT !.cache = Append(S1.cache, entry),
                                        !.mem = S1.mem + p.size_bytes,
                                        !.tags = TagAll(S1.tags, tags, key)],
                       ok |-> TRUE]

\* set(key, value, ttl, priority, tags): whether it stored and the table it leaves
set_result(S, key, value, ttl, priority, tags, now, gzipOk) ==
    LET st == insert_entry(S, key, value, ttl, priority, tags, now, gzipOk)
    IN  IF st.ok THEN [S |-> check_memory_pressure(st.S, now, gzipOk), ok |-> TRUE]
        ELSE st

CacheSet(key, value, ttl, priority, tags, gzipOk) ==
    LET r == set_result(StateRec, key, value, ttl, priority, tags, clock, gzipOk)
    IN  /\ Commit(r.S)
            /\ UNCHANGED clock

CacheGet(key) ==
    LET r == get_result(StateRec, key, clock)
    IN  /\ Commit(r.S)
            /\ UNCHANGED clock

CacheDelete(key) ==
    /\ Commit(IF HasKey(cache, key) THEN remove_entry(StateRec, key, "delete") ELSE StateRec)
    /\ UNCHANGED clock

EmptyTags == [t \in {} |-> {}]

CacheClear ==
    /\ UNCHANGED <<collectVars, extractVars, normVars, rateVars, concVars, apiVars, max_size, max_memory_bytes>>
    /\ cache' = <<>>
    /\ tags_index' = EmptyTags
    /\ current_memory' = 0
    /\ log' = [i \in 1..Len(cache) |->
                      [key |-> cache[i].key, priority |-> cache[i].priority, cause |-> "clear"]]
    /\ UNCHANGED clock

\* clear_by_tag(tag): list(self._tags[tag]) is in set order, which is arbitrary
RECURSIVE SetToSeq(_)
SetToSeq(s) ==
    IF s = {} THEN <<>>
    ELSE LET x == CHOOSE y \in s : TRUE IN <<x>> \o SetToSeq(s \ {x})

\* clear_by_tag(tag): the table it leaves and the number it returns
clear_by_tag(S, tag) ==
    IF tag \notin DOMAIN S.tags THEN [S |-> S, count |-> 0]
    ELSE LET keys_to_delete == SetToSeq(S.tags[tag])
         IN  [S |-> RemoveKeys(S, keys_to_delete, "tag"), count |-> Len(keys_to_delete)]

CacheClearByTag(tag) ==
    /\ Commit(clear_by_tag(StateRec, tag).S)
    /\ UNCHANGED clock

\* clear_expired(), also what the cleanup thread runs every minute
CacheClearExpired ==
    /\ Commit(clear_expired(StateRec, clock))
    /\ UNCHANGED clock

OptimizeTargets == {4, 30}

CacheOptimize(target_bytes, gzipOk) ==
    /\ Commit(optimize_memory(StateRec, 5 * target_bytes, clock, gzipOk))
    /\ UNCHANGED clock

CacheTick ==
    /\ clock + TickStep <= MaxClock
    /\ clock' = clock + TickStep
    /\ UNCHANGED <<collectVars, extractVars, normVars, rateVars, concVars, apiVars, max_size, max_memory_bytes>>
    /\ UNCHANGED <<cache, current_memory, tags_index, log>>

EmptyCache ==
    /\ cache = <<>>
    /\ current_memory = 0
    /\ tags_index = EmptyTags
    /\ clock = 0
    /\ log = <<>>

CacheInit ==
    /\ max_size = SmallMaxSize
    /\ max_memory_bytes = SmallMaxMemory
    /\ EmptyCache

CacheInitWide ==
    /\ max_size = WideMaxSize
    /\ max_memory_bytes = WideMaxMemory
    /\ EmptyCache

\* the calls of set the model makes: gzip.compress is only reached above the
\* threshold, and a None value is refused whatever the other arguments are
SetRequests ==
    {r \in [key : Keys, value : Values \cup {NoneValue}, ttl : InputTTLs,
            priority : InputPriorities, gzipOk : BOOLEAN] :
        /\ (r.value = NoneValue \/ len(pickle_dumps(r.value)) <= compression_threshold)
              => r.gzipOk
        /\ r.value = NoneValue
              => (r.key = "k1" /\ r.ttl = NoTTL /\ r.priority = MEDIUM)}

CacheNext ==
    \/ \E r \in SetRequests :
          CacheSet(r.key, r.value, r.ttl, r.priority, TagsFor(r.key), r.gzipOk)
    \/ \E key \in Keys : CacheGet(key)
    \/ \E key \in Keys : CacheDelete(key)
    \/ CacheClear
    \/ \E tag \in TagNames : CacheClearByTag(tag)
    \/ CacheClearExpired
    \/ \E target_bytes \in OptimizeTargets, gzipOk \in BOOLEAN : CacheOptimize(target_bytes, gzipOk)
    \/ CacheTick


(***************************************************************************)
(* Strings are sequences of characters.  normalize_title (app.py).         *)
(***************************************************************************)
Whitespace == {" ", "\t"}
\* [.,!?;:\-–—]
Punctuation == {".", ",", "!", "?", ";", ":", "-", "ndash", "mdash"}
\* ["'“”‘’]
QuoteChars == {"dquote", "'", "ldquo", "rdquo", "lsquo", "rsquo"}

LowerChar(ch) == CASE ch = "A" -> "a" [] ch = "B" -> "b" [] ch = "C" -> "c"
                   [] ch = "X" -> "x" [] ch = "Y" -> "y" [] ch = "Z" -> "z"
                   [] OTHER -> ch
lower(str) == [i \in 1..Len(str) |-> LowerChar(str[i])]

RECURSIVE lstrip(_)
lstrip(str) ==
    IF str # <<>> /\ Head(str) \in Whitespace THEN lstrip(Tail(str)) ELSE str
RECURSIVE rstrip(_)
rstrip(str) ==
    IF str # <<>> /\ str[Len(str)] \in Whitespace
    THEN rstrip(SubSeq(str, 1, Len(str) - 1)) ELSE str
strip(str) == rstrip(lstrip(str))

\* re.sub(r'\s+', ' ', str)
RECURSIVE collapse_whitespace(_)
collapse_whitespace(str) ==
    IF str = <<>> THEN <<>>
    ELSE IF Head(str) \in Whitespace
         THEN <<" ">> \o collapse_whitespace(lstrip(str))
         ELSE <<Head(str)>> \o collapse_whitespace(Tail(str))

\* re.sub('[...]', '', str)
remove_chars(str, chars) == SelectSeq(str, LAMBDA ch : ch \notin chars)

normalize_title(title) ==
    remove_chars(remove_chars(collapse_whitespace(strip(lower(title))), Punctuation),
                 QuoteChars)

\* html.unescape
html_unescape(str) == [i \in 1..Len(str) |-> IF str[i] = "&amp;" THEN "&" ELSE str[i]]

(***************************************************************************)
(* The global dedup cache (app.py).                                        *)
(***************************************************************************)
CACHE_EXPIRE_HOURS == 6
\* MAX_GLOBAL_CACHE is 1000 and the trim 200 in the source; scaled down here
MAX_GLOBAL_CACHE == 2
TRIM_COUNT == 1
MaxHours == 12
HourStep == 6

\* a sweep that also drops the records exactly CACHE_EXPIRE_HOURS old
clean_expired_cache_inclusive(G, now) ==
    SelectSeq(G, LAMBDA r : ~((now - r.timestamp) * 3600 >= CACHE_EXPIRE_HOURS * 3600))

\* clean_expired_cache: drop the records older than CACHE_EXPIRE_HOURS
clean_expired_cache(G, now) ==
    SelectSeq(G, LAMBDA r : ~((now - r.timestamp) * 3600 > CACHE_EXPIRE_HOURS * 3600))

\* sorted(items, key=timestamp): ascending, equal keys keep their order
RECURSIVE InsertByTimestamp(_, _)
InsertByTimestamp(sorted, r) ==
    IF sorted = <<>> THEN <<r>>
    ELSE IF r.timestamp < Head(sorted).timestamp
         THEN <<r>> \o sorted
         ELSE <<Head(sorted)>> \o InsertByTimestamp(Tail(sorted), r)
RECURSIVE SortByTimestamp(_)
SortByTimestamp(G) ==
    IF G = <<>> THEN <<>>
    ELSE InsertByTimestamp(SortByTimestamp(SubSeq(G, 1, Len(G) - 1)), G[Len(G)])

Min(a, b) == IF a < b THEN a ELSE b

\* a trim that deletes from the newest end of the sorted records
TrimNewestRecords(G) ==
    IF Len(G) > MAX_GLOBAL_CACHE
    THEN SubSeq(SortByTimestamp(G), 1, Len(G) - Min(TRIM_COUNT, Len(G)))
    ELSE G

TrimGlobalCache(G) ==
    IF Len(G) > MAX_GLOBAL_CACHE
    THEN LET old == SubSeq(SortByTimestamp(G), 1, Min(TRIM_COUNT, Len(G)))
             old_keys == {old[i].key : i \in 1..Len(old)}
         IN  SelectSeq(G, LAMBDA r : r.key \notin old_keys)
    ELSE G

\* global_seen_articles[cache_key] = record
PutRecord(G, r) ==
    IF \E i \in 1..Len(G) : G[i].key = r.key
    THEN [i \in 1..Len(G) |-> IF G[i].key = r.key THEN r ELSE G[i]]
    ELSE Append(G, r)

\* a match that asks for the title and the link to be equal at once
MatchesRecordKey(news_item, r) ==
    /\ normalize_title(news_item.title) = normalize_title(r.title)
    /\ strip(lower(news_item.link)) = strip(lower(r.link))

MatchesRecord(news_item, r) ==
    \/ normalize_title(news_item.title) = normalize_title(r.title)
    \/ strip(lower(news_item.link)) = strip(lower(r.link))

\* is_duplicate_article_global(news_item, source_name) -> [dup, G]
is_duplicate_article_global(news_item, source_name, G, now) ==
    LET G1 == clean_expired_cache(G, now)
        current_title == normalize_title(news_item.title)
        current_link == strip(lower(news_item.link))
    IN  IF \E i \in 1..Len(G1) : MatchesRecord(news_item, G1[i])
        THEN [dup |-> TRUE, G |-> G1]
        ELSE LET rec == [key |-> current_title \o <<"|">> \o current_link,
                         title |-> news_item.title, link |-> news_item.link,
                         source |-> source_name, timestamp |-> now]
             IN  [dup |-> FALSE, G |-> TrimGlobalCache(PutRecord(G1, rec))]

(***************************************************************************)
(* Feeds and the feed parser (process_rss_feed_async).                     *)
(***************************************************************************)
NoDate == 0 - 1
\* the entries remote feeds may hold: title, link, published_parsed, a
\* description (the summary as cut to 500 characters) that holds a finance
\* keyword or none, whether the entry has a title at all
Entry(title, link, published, keyword, has_title) ==
    [title |-> title, link |-> link, published |-> published,
     description |-> IF keyword THEN <<"B">> ELSE <<"C">>,
     has_title |-> has_title, raises |-> FALSE]
eA == Entry(<<"A">>, <<"x">>, 1, TRUE, TRUE)
ea == Entry(<<" ", "a", "!">>, <<"y">>, 2, TRUE, TRUE)
eB == Entry(<<"B">>, <<"X", " ">>, 2, TRUE, TRUE)
eC == Entry(<<"C">>, <<"z">>, NoDate, FALSE, TRUE)
eN == Entry(<<>>, <<"w">>, 1, TRUE, FALSE)
\* two titles that differ only in a punctuation mark standing between spaces
eD == Entry(<<"A", " ", "-", " ", "B">>, <<"u">>, 1, TRUE, TRUE)
eS == Entry(<<"A", " ", " ", "B">>, <<"v">>, 1, TRUE, TRUE)
\* an entry whose title is blank and one whose link is empty
eE == Entry(<<" ">>, <<"e">>, 1, TRUE, TRUE)
eL == Entry(<<"B">>, <<>>, 2, TRUE, TRUE)
FeedEntries == {eA, ea, eB, eC, eN}
\* <<>> is a feed without entries (or no feed at all)
Feeds ==
    {<<>>, <<eA>>, <<eA, ea>>, <<eA, eB>>, <<eB, ea>>, <<eC, eB>>, <<eN, ea>>}
\* feeds of titles that are variants of one another, and a feed of entries
\* with an empty field
VariantFeeds == {<<>>, <<eD, eS>>, <<eS, eD>>, <<eE, eL>>}

Sources == {"cafef_stocks", "cnbc"}
MaxSources == 2
SourceLists == {<<"cafef_stocks">>, <<"cnbc">>, <<"cafef_stocks", "cnbc">>}
LimitsPerSource == {1, 2}

\* the keywords of the list, each one character long here
financial_keywords == {"a", "b"}
\* a filter that reads the title alone
is_relevant_title(title, description, source_name) ==
    IF source_name = "cafef_stocks" THEN TRUE
    ELSE \E i \in 1..Len(title) : lower(title)[i] \in financial_keywords
\* is_relevant_news: 'cafef' in source_name, or a keyword in the lower-cased
\* title, a space and the lower-cased description
is_relevant_news(title, description, source_name) ==
    IF source_name = "cafef_stocks" THEN TRUE
    ELSE LET combined_text == lower(title) \o <<" ">> \o lower(description)
         IN  \E i \in 1..Len(combined_text) : combined_text[i] \in financial_keywords

\* the loop body over one entry: the item appended, or nothing
EntryItems(entry, source_name, now) ==
    LET vn_time == IF entry.published # NoDate THEN entry.published ELSE now IN
    IF entry.raises THEN <<>>   \* except: continue (lines 708-710)
    ELSE IF entry.has_title
    THEN LET title == strip(entry.title) IN
         IF is_relevant_news(title, entry.description, source_name)
         THEN <<[title |-> html_unescape(title), link |-> entry.link,
                 source |-> source_name, published |-> vn_time]>>
         ELSE <<>>
    ELSE <<>>

\* a loop that ends at the first entry it cannot use
RECURSIVE ParseUntilSkipped(_, _, _)
ParseUntilSkipped(entries, source_name, now) ==
    IF entries = <<>> THEN <<>>
    ELSE IF EntryItems(Head(entries), source_name, now) = <<>> THEN <<>>
    ELSE EntryItems(Head(entries), source_name, now)
             \o ParseUntilSkipped(Tail(entries), source_name, now)

RECURSIVE ParseEntries(_, _, _)
ParseEntries(entries, source_name, now) ==
    IF entries = <<>> THEN <<>>
    ELSE EntryItems(Head(entries), source_name, now)
             \o ParseEntries(Tail(entries), source_name, now)

FirstN(seq, n) == SubSeq(seq, 1, Min(n, Len(seq)))

\* a task that raises after parsing hands back what it parsed (the mutant)
process_rss_feed_partial(source_name, feed, limit_per_source, raises, now) ==
    IF Len(feed) = 0 THEN <<>>
    ELSE ParseEntries(FirstN(feed, limit_per_source), source_name, now)

\* process_rss_feed_async: feed is what feedparser.parse gave (from the bytes
\* fetched or, failing that, from the URL), raises is an exception in the body
process_rss_feed_async(source_name, feed, limit_per_source, raises, now) ==
    IF raises THEN <<>>
    ELSE IF Len(feed) = 0 THEN <<>>
    ELSE ParseEntries(FirstN(feed, limit_per_source), source_name, now)

(***************************************************************************)
(* collect_news_enhanced: the merge loop and the final sort.               *)
(***************************************************************************)
local_duplicate_raw(news_item, news) ==
    \E i \in 1..Len(news) : news_item.title = news[i].title

\* any(normalize_title(item) == normalize_title(existing) for existing in all_news)
local_duplicate(news_item, news) ==
    \E i \in 1..Len(news) :
        normalize_title(news_item.title) = normalize_title(news[i].title)

\* the loop over one source's result; M = [news, G]
RECURSIVE MergeItems(_, _, _, _)
MergeItems(M, items, use_global_dedup, now) ==
    IF items = <<>> THEN M
    ELSE LET news_item == Head(items) IN
         IF local_duplicate(news_item, M.news)
         THEN MergeItems(M, Tail(items), use_global_dedup, now)
         ELSE IF use_global_dedup
         THEN LET d == is_duplicate_article_global(news_item, news_item.source, M.G, now)
              IN  IF d.dup
                  THEN MergeItems([M EXCEPT !.G = d.G], Tail(items), use_global_dedup, now)
                  ELSE MergeItems([news |-> Append(M.news, news_item), G |-> d.G],
                                  Tail(items), use_global_dedup, now)
         ELSE MergeItems([M EXCEPT !.news = Append(M.news, news_item)],
                         Tail(items), use_global_dedup, now)

\* the loop over gather's results, in the order of sources_dict
RECURSIVE MergeResults(_, _, _, _)
MergeResults(M, results, use_global_dedup, now) ==
    IF results = <<>> THEN M
    ELSE MergeResults(MergeItems(M, Head(results), use_global_dedup, now),
                      Tail(results), use_global_dedup, now)

\* list.sort(key=published, reverse=True): newest first, ties keep their order
RECURSIVE InsertNewestFirst(_, _)
InsertNewestFirst(sorted, x) ==
    IF sorted = <<>> THEN <<x>>
    ELSE IF Head(sorted).published < x.published
         THEN <<x>> \o sorted
         ELSE <<Head(sorted)>> \o InsertNewestFirst(Tail(sorted), x)
RECURSIVE SortPlain(_)
SortPlain(news) ==
    IF news = <<>> THEN <<>>
    ELSE InsertNewestFirst(SortPlain(SubSeq(news, 1, Len(news) - 1)), news[Len(news)])

Reverse(seq) == [i \in 1..Len(seq) |-> seq[Len(seq) + 1 - i]]

\* sorting oldest first and reversing: ties come out in reverse order
sort_newest_first_reversed(news) == SortPlain(Reverse(news))

sort_newest_first(news) == SortPlain(news)

MaxElapsed == 2
\* the overall budget the specification gives a collect call
WallClockBudget == 1

Pending(i) == tasks[i].status = "pending"

\* lines 751-762: sweep the dedup cache, create one task per source
CollectStart(sources, limit_per_source, use_global_dedup) ==
    /\ pc = "idle"
    /\ global_seen_articles' = IF use_global_dedup
                               THEN clean_expired_cache(global_seen_articles, wall_clock)
                               ELSE global_seen_articles
    /\ call' = [sources |-> sources, limit |-> limit_per_source,
                dedup |-> use_global_dedup, at |-> wall_clock]
    /\ tasks' = [i \in 1..Len(sources) |->
                    [status |-> "pending", outcome |-> "none", result |-> <<>>]]
    /\ pc' = "gather"
    /\ elapsed' = 0
    /\ admitted' = <<>>
    /\ all_news' = <<>>
    /\ UNCHANGED <<wall_clock, cacheVars, extractVars, normVars, rateVars, concVars, apiVars>>

\* one task of asyncio.gather runs to its end
TaskFinish(i, feed, raises) ==
    /\ pc = "gather"
    /\ i \in 1..Len(tasks)
    /\ Pending(i)
    /\ tasks' = [tasks EXCEPT ![i] =
                    [status  |-> "done",
                     outcome |-> IF raises THEN "raised"
                                 ELSE IF Len(feed) = 0 THEN "nofeed" ELSE "ok",
                     result  |-> process_rss_feed_async(call.sources[i], feed, call.limit,
                                                        raises, wall_clock)]]
    /\ UNCHANGED <<global_seen_articles, wall_clock, pc, call, elapsed, admitted, all_news,
                   cacheVars, extractVars, normVars, rateVars, concVars, apiVars>>

\* line 765: gather is awaited with no deadline; time passes while a task is pending
GatherWait ==
    /\ pc = "gather"
    /\ \E i \in 1..Len(tasks) : Pending(i)
    /\ elapsed < MaxElapsed
    /\ elapsed' = elapsed + 1
    /\ UNCHANGED <<global_seen_articles, wall_clock, pc, call, tasks, admitted, all_news,
                   cacheVars, extractVars, normVars, rateVars, concVars, apiVars>>

Results == [i \in 1..Len(tasks) |-> tasks[i].result]

\* lines 767-798: gather has returned; merge, deduplicate, sort, return
CollectReturn ==
    /\ pc = "gather"
    /\ \A i \in 1..Len(tasks) : ~Pending(i)
    /\ LET M == MergeResults([news |-> <<>>, G |-> global_seen_articles], Results,
                             call.dedup, wall_clock)
       IN  /\ admitted' = M.news
           /\ all_news' = sort_newest_first(M.news)
           /\ global_seen_articles' = M.G
    /\ pc' = "idle"
    /\ UNCHANGED <<wall_clock, call, tasks, elapsed, cacheVars, extractVars, normVars, rateVars, concVars, apiVars>>

\* hours pass between calls
HourTick ==
    /\ pc = "idle"
    /\ wall_clock + HourStep <= MaxHours
    /\ wall_clock' = wall_clock + HourStep
    /\ UNCHANGED <<global_seen_articles, pc, call, tasks, elapsed, admitted, all_news,
                   cacheVars, extractVars, normVars, rateVars, concVars, apiVars>>

CollectIdle ==
    /\ wall_clock = 0
    /\ pc = "idle"
    /\ call = [sources |-> <<>>, limit |-> 1, dedup |-> TRUE, at |-> 0]
    /\ tasks = <<>>
    /\ elapsed = 0
    /\ admitted = <<>>
    /\ all_news = <<>>

CollectInit ==
    /\ global_seen_articles = <<>>
    /\ CollectIdle

CollectNext ==
    \/ \E sources \in SourceLists, limit_per_source \in LimitsPerSource,
          use_global_dedup \in BOOLEAN :
          CollectStart(sources, limit_per_source, use_global_dedup)
    \/ \E i \in 1..MaxSources, feed \in Feeds, raises \in BOOLEAN : TaskFinish(i, feed, raises)
    \/ GatherWait
    \/ CollectReturn
    \/ HourTick

(***************************************************************************)
(* The extraction chain: extract_content_enhanced and                      *)
(* extract_content_with_gemini.  Texts are modelled by their lengths.      *)
(***************************************************************************)
MinExtractedLength == 200
MinGeminiLength == 400
TextLengths == {0, 100, 200, 201}
GeminiLengths == {400, 401}

FetchOutcomes == {"bytes", "empty", "status", "exception"}
\* fetch_with_aiohttp: the body on HTTP 200, None on another status or an exception
fetch_with_aiohttp(outcome) ==
    IF outcome = "bytes" THEN "bytes"
    ELSE IF outcome = "empty" THEN "" ELSE "None"

\* truth value of a bytes-or-None
\* a test for None alone
IsNotNone(content) == content # "None"

Truthy(content) == content = "bytes"

is_international_source(source_name) == source_name = "cnbc"

create_fallback_content(source_name, error_msg) ==
    [kind |-> "fallback", source_name |-> source_name, error_msg |-> error_msg,
     international |-> is_international_source(source_name)]

format_extracted_content_terminal(source_name) ==
    [kind |-> "formatted", source_name |-> source_name, error_msg |-> "",
     international |-> is_international_source(source_name)]

NoResult == [kind |-> "none", source_name |-> "", error_msg |-> "", international |-> FALSE]

\* a strategy accepting any non-empty text
long_enough_nonempty(text_length) == text_length > 0

\* len(text) > 200
long_enough(text_length) == text_length > MinExtractedLength

\* what a library call may do: raise, or yield a text; formatting may raise
StrategyOutcomes ==
    [raises : BOOLEAN, len : TextLengths, len2 : {0}, format_raises : BOOLEAN]
SoupOutcomes ==
    [raises : BOOLEAN, len : TextLengths, len2 : TextLengths, format_raises : {FALSE}]

\* lines 472-478; the except clause swallows what the try block raises
trafilatura_try(o, extracted) ==
    IF o.raises THEN [returned |-> FALSE, extracted |-> extracted]
    ELSE IF o.len > 0 /\ long_enough(o.len)
         THEN [returned |-> ~o.format_raises, extracted |-> o.len]
         ELSE [returned |-> FALSE, extracted |-> o.len]

\* lines 481-491
newspaper_try(o, extracted) ==
    IF o.raises THEN [returned |-> FALSE, extracted |-> extracted]
    ELSE IF o.len > 0 /\ long_enough(o.len)
         THEN [returned |-> ~o.format_raises, extracted |-> o.len]
         ELSE [returned |-> FALSE, extracted |-> extracted]

\* lines 494-523: o.len is the text under the first selector that matches,
\* o.len2 the joined paragraph text
beautifulsoup_try(o, extracted) ==
    IF o.raises THEN [returned |-> FALSE, extracted |-> extracted]
    ELSE IF long_enough(o.len)
         THEN [returned |-> ~o.format_raises, extracted |-> o.len]
         ELSE IF o.len2 > 0
              THEN IF long_enough(o.len2)
                   THEN [returned |-> ~o.format_raises, extracted |-> o.len2]
                   ELSE [returned |-> FALSE, extracted |-> o.len2]
              ELSE [returned |-> FALSE, extracted |-> o.len]

Tried(strategy, o) ==
    [strategy |-> strategy, raises |-> o.raises, len |-> o.len, len2 |-> o.len2,
     blocked |-> FALSE, format_raises |-> o.format_raises, marker |-> "none",
     timed_out |-> FALSE]

\* an order that puts the selector search before newspaper3k
NextStrategyDomFirst(strategy) ==
    IF strategy = "trafilatura" THEN "beautifulsoup"
    ELSE IF strategy = "beautifulsoup" THEN "newspaper"
    ELSE "fallback"

\* the order of the blocks of extract_content_enhanced: lines 472, 481, 494, 526
NextStrategy(strategy) ==
    IF strategy = "trafilatura" THEN "newspaper"
    ELSE IF strategy = "newspaper" THEN "beautifulsoup"
    ELSE "fallback"

ExtractIdle == ext_pc \in {"idle", "done"}

\* called for the sources that are not international (lines 1751-1752, 1803-1804)
ExtractStart(source_name, T, N, B) ==
    /\ ExtractIdle
    /\ ~is_international_source(source_name)
    /\ ext_pc' = "fetch"
    /\ ext_call' = [source_name |-> source_name, mode |-> "enhanced",
                    TRAFILATURA_AVAILABLE |-> T, NEWSPAPER_AVAILABLE |-> N,
                    BEAUTIFULSOUP_AVAILABLE |-> B]
    /\ ext_content' = "None"
    /\ extracted_content' = 0
    /\ ext_tried' = <<>>
    /\ ext_result' = NoResult
    /\ UNCHANGED <<cacheVars, collectVars, normVars, rateVars, concVars, apiVars>>

\* lines 465-467
ExtractFetch(outcome) ==
    /\ ext_pc = "fetch"
    /\ ext_content' = fetch_with_aiohttp(outcome)
    /\ IF ~Truthy(ext_content')
       THEN /\ ext_result' = create_fallback_content(ext_call.source_name,
                                                     "Network fetch failed")
            /\ ext_pc' = "done"
       ELSE /\ ext_pc' = "trafilatura"
            /\ UNCHANGED ext_result
    /\ UNCHANGED <<ext_call, extracted_content, ext_tried, cacheVars, collectVars, normVars, rateVars, concVars, apiVars>>

\* one strategy of the chain: skipped when cond is false, else tried
RunStrategy(strategy, cond, o, r, next) ==
    IF ~cond
    THEN /\ ext_pc' = next
         /\ UNCHANGED <<extracted_content, ext_tried, ext_result>>
    ELSE /\ ext_tried' = Append(ext_tried, Tried(strategy, o))
         /\ extracted_content' = r.extracted
         /\ IF r.returned
            THEN /\ ext_result' = format_extracted_content_terminal(ext_call.source_name)
                 /\ ext_pc' = "done"
            ELSE /\ ext_pc' = next
                 /\ UNCHANGED ext_result

ExtractTrafilatura(o) ==
    /\ ext_pc = "trafilatura"
    /\ RunStrategy("trafilatura", ext_call.TRAFILATURA_AVAILABLE, o,
                   trafilatura_try(o, extracted_content), NextStrategy("trafilatura"))
    /\ UNCHANGED <<ext_call, ext_content, cacheVars, collectVars, normVars, rateVars, concVars, apiVars>>

ExtractNewspaper(o) ==
    /\ ext_pc = "newspaper"
    /\ RunStrategy("newspaper", ext_call.NEWSPAPER_AVAILABLE /\ extracted_content = 0, o,
                   newspaper_try(o, extracted_content), NextStrategy("newspaper"))
    /\ UNCHANGED <<ext_call, ext_content, cacheVars, collectVars, normVars, rateVars, concVars, apiVars>>

ExtractBeautifulSoup(o) ==
    /\ ext_pc = "beautifulsoup"
    /\ RunStrategy("beautifulsoup",
                   ext_call.BEAUTIFULSOUP_AVAILABLE /\ extracted_content = 0, o,
                   beautifulsoup_try(o, extracted_content), NextStrategy("beautifulsoup"))
    /\ UNCHANGED <<ext_call, ext_content, cacheVars, collectVars, normVars, rateVars, concVars, apiVars>>

\* line 526
ExtractFallback ==
    /\ ext_pc = "fallback"
    /\ ext_result' = create_fallback_content(ext_call.source_name,
                                             "All extraction methods failed")
    /\ ext_pc' = "done"
    /\ UNCHANGED <<ext_call, ext_content, extracted_content, ext_tried, cacheVars,
                   collectVars, normVars, rateVars, concVars, apiVars>>

\* what the text of the AI holds: no indicator, or one in either case
Markers == {"none", "access denied", "ACCESS DENIED"}
error_indicators == {"access denied"}
\* str.lower()
lower_text(text) == IF text = "ACCESS DENIED" THEN "access denied" ELSE text
\* a search in the text as it came
HasIndicatorExact(text) == text \in error_indicators
\* any(indicator in extracted_content.lower() for indicator in error_indicators)
HasIndicator(text) == lower_text(text) \in error_indicators

GeminiOutcomes ==
    {o \in [kind : {"timeout", "raises", "text"}, len : GeminiLengths, marker : Markers,
            format_raises : BOOLEAN] :
        o.kind # "text" => (o.marker = "none" /\ ~o.format_raises)}

\* extract_content_with_gemini, lines 531-613
extract_content_with_gemini(source_name, available, o) ==
    IF ~available
    THEN create_fallback_content(source_name, "Gemini AI module offline")
    ELSE IF o.kind = "timeout"
    THEN create_fallback_content(source_name, "Gemini AI timeout exceeded")
    ELSE IF o.kind = "raises"
    THEN create_fallback_content(source_name, "Gemini processing error")
    ELSE IF o.len > MinGeminiLength
    THEN IF ~HasIndicator(o.marker)
         THEN IF o.format_raises
              THEN create_fallback_content(source_name, "Gemini processing error")
              ELSE format_extracted_content_terminal(source_name)
         ELSE create_fallback_content(source_name, "Gemini access blocked by target site")
    ELSE create_fallback_content(source_name, "Extracted content below minimum threshold")

\* called for the international sources (lines 1748-1749, 1801-1802)
ExtractGemini(source_name, available, o) ==
    /\ ExtractIdle
    /\ is_international_source(source_name)
    /\ ext_call' = [source_name |-> source_name, mode |-> "gemini",
                    TRAFILATURA_AVAILABLE |-> FALSE, NEWSPAPER_AVAILABLE |-> FALSE,
                    BEAUTIFULSOUP_AVAILABLE |-> FALSE]
    /\ ext_content' = "None"
    /\ extracted_content' = 0
    /\ ext_tried' = IF available
                    THEN <<[strategy |-> "gemini", raises |-> o.kind # "text",
                            len |-> o.len, len2 |-> 0,
                            blocked |-> o.kind = "text" /\ HasIndicator(o.marker),
                            format_raises |-> o.kind = "text" /\ o.format_raises,
                            marker |-> o.marker, timed_out |-> o.kind = "timeout"]>>
                    ELSE <<>>
    /\ ext_result' = extract_content_with_gemini(source_name, available, o)
    /\ ext_pc' = "done"
    /\ UNCHANGED <<cacheVars, collectVars, normVars, rateVars, concVars, apiVars>>

ExtractInit ==
    /\ ext_pc = "idle"
    /\ ext_call = [source_name |-> "", mode |-> "enhanced",
                   TRAFILATURA_AVAILABLE |-> FALSE, NEWSPAPER_AVAILABLE |-> FALSE,
                   BEAUTIFULSOUP_AVAILABLE |-> FALSE]
    /\ ext_content = "None"
    /\ extracted_content = 0
    /\ ext_tried = <<>>
    /\ ext_result = NoResult

ExtractNext ==
    \/ \E source_name \in Sources, T \in BOOLEAN, N \in BOOLEAN, B \in BOOLEAN :
          ExtractStart(source_name, T, N, B)
    \/ \E outcome \in FetchOutcomes : ExtractFetch(outcome)
    \/ \E o \in StrategyOutcomes : ExtractTrafilatura(o)
    \/ \E o \in StrategyOutcomes : ExtractNewspaper(o)
    \/ \E o \in SoupOutcomes : ExtractBeautifulSoup(o)
    \/ ExtractFallback
    \/ \E source_name \in Sources, available \in BOOLEAN, o \in GeminiOutcomes :
          ExtractGemini(source_name, available, o)

(***************************************************************************)
(* normalize_title applied to a string, and again to what it returned.     *)
(***************************************************************************)
MaxTitleLen == 3
TitleChars == {"A", "b", " ", "!", "'"}
\* "  Stocks Rise -- Big Time!  " with one letter per word and an em dash
ExampleTitle ==
    <<" ", " ", "A", " ", "B", " ", "mdash", " ", "C", " ", "X", "!", " ", " ">>
TitleInputs ==
    UNION {[1..n -> TitleChars] : n \in 0..MaxTitleLen} \cup {ExampleTitle}

NormalizeTitle ==
    /\ Len(norm_output) < 2
    /\ norm_output' = Append(norm_output,
                             normalize_title(IF norm_output = <<>> THEN norm_input
                                             ELSE norm_output[Len(norm_output)]))
    /\ UNCHANGED <<norm_input, rateVars, cacheVars, collectVars, extractVars, concVars, apiVars>>

NormInit ==
    /\ norm_input = <<>>
    /\ norm_output = <<>>

NormInputs ==
    /\ norm_input \in TitleInputs
    /\ norm_output = <<>>

(***************************************************************************)
(* Request threads in is_duplicate_article_global.  Each Flask request     *)
(* runs its collect call in a thread of its own (run_async); the memory    *)
(* optimizer's monitoring thread clears the table.  The threads share      *)
(* global_seen_articles and take no lock; a step is what one thread does   *)
(* between two points where the interpreter may switch threads.            *)
(***************************************************************************)
Threads == {1, 2}

NoItem == [title |-> <<>>, link |-> <<>>, source |-> "none", published |-> 0]
RaceItem(entry, source_name) == EntryItems(entry, source_name, 0)[1]
\* the articles the two calls process: eA and ea are variants of one title
RaceItems ==
    {RaceItem(eA, "cafef_stocks"), RaceItem(ea, "cnbc"), RaceItem(eB, "cnbc")}

\* lines 286-293: the record and the key it is stored under
DedupRecord(news_item, source_name, now) ==
    [key |-> normalize_title(news_item.title) \o <<"|">> \o strip(lower(news_item.link)),
     title |-> news_item.title, link |-> news_item.link,
     source |-> source_name, timestamp |-> now]

\* the table when the calls start: empty, or holding what an earlier call admitted
RaceTables == {<<>>, <<DedupRecord(RaceItem(eC, "cafef_stocks"), "cafef_stocks", 0)>>}

IdleThread == [pc |-> "idle", item |-> NoItem, size0 |-> 0, pos |-> 0, dup |-> FALSE]

\* line 786: the merge loop calls is_duplicate_article_global(news_item, source)
RaceCall(t, news_item) ==
    /\ thr[t].pc = "idle"
    /\ thr' = [thr EXCEPT ![t] = [IdleThread EXCEPT !.pc = "clean", !.item = news_item]]
    /\ UNCHANGED <<cleared, collectVars, cacheVars, extractVars, normVars, rateVars, sweepVars, apiVars>>

\* line 274: clean_expired_cache()
RaceClean(t) ==
    /\ thr[t].pc = "clean"
    /\ global_seen_articles' = clean_expired_cache(global_seen_articles, wall_clock)
    /\ thr' = [thr EXCEPT ![t].pc = "iter"]
    /\ UNCHANGED <<cleared, wall_clock, pc, call, tasks, elapsed, admitted, all_news,
                   cacheVars, extractVars, normVars, rateVars, sweepVars, apiVars>>

\* line 279: the iterator over global_seen_articles.values() is created
RaceIterStart(t) ==
    /\ thr[t].pc = "iter"
    /\ thr' = [thr EXCEPT ![t].pc = "scan", ![t].size0 = Len(global_seen_articles),
                          ![t].pos = 0]
    /\ UNCHANGED <<cleared, collectVars, cacheVars, extractVars, normVars, rateVars, sweepVars, apiVars>>

\* lines 279-284, one turn of the loop: a dict iterator raises RuntimeError
\* when the dict has changed size since it was made, and line 302 turns the
\* exception into "not a duplicate"
RaceScan(t) ==
    /\ thr[t].pc = "scan"
    /\ thr' = [thr EXCEPT ![t] =
                 IF Len(global_seen_articles) # thr[t].size0
                 THEN [@ EXCEPT !.pc = "done", !.dup = FALSE]
                 ELSE IF thr[t].pos < Len(global_seen_articles)
                 THEN IF MatchesRecord(thr[t].item, global_seen_articles[thr[t].pos + 1])
                      THEN [@ EXCEPT !.pc = "done", !.dup = TRUE]
                      ELSE [@ EXCEPT !.pos = @ + 1]
                 ELSE [@ EXCEPT !.pc = "insert"]]
    /\ UNCHANGED <<cleared, collectVars, cacheVars, extractVars, normVars, rateVars, sweepVars, apiVars>>

\* lines 286-293: global_seen_articles[cache_key] = record
RaceInsert(t) ==
    /\ thr[t].pc = "insert"
    /\ global_seen_articles' =
           PutRecord(global_seen_articles,
                     DedupRecord(thr[t].item, thr[t].item.source, wall_clock))
    /\ thr' = [thr EXCEPT ![t].pc = "trim"]
    /\ UNCHANGED <<cleared, wall_clock, pc, call, tasks, elapsed, admitted, all_news,
                   cacheVars, extractVars, normVars, rateVars, sweepVars, apiVars>>

\* lines 295-300: trim above MAX_GLOBAL_CACHE, return False
RaceTrim(t) ==
    /\ thr[t].pc = "trim"
    /\ global_seen_articles' = TrimGlobalCache(global_seen_articles)
    /\ thr' = [thr EXCEPT ![t].pc = "done", ![t].dup = FALSE]
    /\ UNCHANGED <<cleared, wall_clock, pc, call, tasks, elapsed, admitted, all_news,
                   cacheVars, extractVars, normVars, rateVars, sweepVars, apiVars>>

\* MemoryOptimizer._clear_global_caches, line 285: app.global_seen_articles.clear()
OptimizerClear ==
    /\ global_seen_articles' = <<>>
    /\ cleared' = TRUE
    /\ UNCHANGED <<thr, wall_clock, pc, call, tasks, elapsed, admitted, all_news,
                   cacheVars, extractVars, normVars, rateVars, sweepVars, apiVars>>

RaceInit ==
    /\ thr = [t \in Threads |-> IdleThread]
    /\ cleared = FALSE

RaceNext ==
    \/ \E t \in Threads, news_item \in RaceItems : RaceCall(t, news_item)
    \/ \E t \in Threads : RaceClean(t)
    \/ \E t \in Threads : RaceIterStart(t)
    \/ \E t \in Threads : RaceScan(t)
    \/ \E t \in Threads : RaceInsert(t)
    \/ \E t \in Threads : RaceTrim(t)
    \/ OptimizerClear

(***************************************************************************)
(* The cache's lock.  cleanup_worker and a foreground thread run over the  *)
(* same table; `lock` holds the threads inside `with self._lock`.  A call  *)
(* of _remove_entry is three steps: the counter, the tag index, the table. *)
(***************************************************************************)
\* threading.RLock: free for a thread when no other thread holds it
lock_free(holders, who) == holders \subseteq {who}

\* a worker that sweeps without taking the lock
cleanup_worker_lock_skipped(holders) == holders

\* line 508 (and again line 245, the lock is reentrant): with self._lock
cleanup_worker_lock(holders) == holders \cup {"sweep"}

RemoveParts == <<"memory", "tags", "table">>

\* _remove_entry(key), one part of it: lines 460, 463-466, 469
remove_entry_part(S, key, part, cause) ==
    IF ~HasKey(S.cache, key) THEN S
    ELSE LET e == EntryOf(S.cache, key)
         IN  CASE part = "memory" -> [S EXCEPT !.mem = @ - e.size_bytes]
               [] part = "tags"   -> [S EXCEPT !.tags = UntagAll(@, e.tags, key)]
               [] OTHER           ->
                    [S EXCEPT !.cache = Without(@, key),
                              !.log = Append(@, [key |-> key, priority |-> e.priority,
                                                 cause |-> cause])]

\* the table, counter and tag index after one part of _remove_entry
CommitPart(S) ==
    /\ cache' = S.cache
    /\ current_memory' = S.mem
    /\ tags_index' = S.tags
    /\ log' = IF S.log = <<>> THEN log ELSE S.log
    /\ UNCHANGED <<max_size, max_memory_bytes, clock>>

SleepingSweeper == [pc |-> "sleep", keys |-> <<>>, part |-> 1, expired_count |-> 0]
IdleForeground == [pc |-> "idle", key |-> "k1", part |-> 1]

\* lines 505-508: the worker wakes and enters `with self._lock`
SweepAcquire ==
    /\ sweeper.pc = "sleep"
    /\ lock_free(lock, "sweep")
    /\ lock' = cleanup_worker_lock(lock)
    /\ sweeper' = [SleepingSweeper EXCEPT !.pc = "list"]
    /\ UNCHANGED <<fg, cacheVars, collectVars, extractVars, normVars, rateVars, raceVars, apiVars>>

\* lines 246-249: expired_keys
SweepList ==
    /\ sweeper.pc = "list"
    /\ LET expired_keys == ExpiredKeys(cache, clock)
       IN  sweeper' = [sweeper EXCEPT !.keys = expired_keys, !.part = 1,
                                      !.expired_count = Len(expired_keys),
                                      !.pc = IF expired_keys = <<>> THEN "release"
                                             ELSE "remove"]
    /\ UNCHANGED <<lock, fg, cacheVars, collectVars, extractVars, normVars, rateVars, raceVars, apiVars>>

\* lines 251-252: one part of self._remove_entry(key) for the next expired key
SweepRemove ==
    /\ sweeper.pc = "remove"
    /\ CommitPart(remove_entry_part(StateRec, Head(sweeper.keys),
                                    RemoveParts[sweeper.part], "expired"))
    /\ sweeper' = IF sweeper.part < Len(RemoveParts)
                  THEN [sweeper EXCEPT !.part = @ + 1]
                  ELSE [sweeper EXCEPT !.part = 1, !.keys = Tail(@),
                                       !.pc = IF Len(sweeper.keys) = 1 THEN "release"
                                              ELSE "remove"]
    /\ UNCHANGED <<lock, fg, collectVars, extractVars, normVars, rateVars, raceVars, apiVars>>

\* leaving the with block, then time.sleep(60)
SweepRelease ==
    /\ sweeper.pc = "release"
    /\ lock' = lock \ {"sweep"}
    /\ sweeper' = [sweeper EXCEPT !.pc = "sleep"]
    /\ UNCHANGED <<fg, cacheVars, collectVars, extractVars, normVars, rateVars, raceVars, apiVars>>

\* delete(key), lines 217-218: with self._lock, if key in self._cache
DeleteAcquire(key) ==
    /\ fg.pc = "idle"
    /\ lock_free(lock, "fg")
    /\ lock' = lock \cup {"fg"}
    /\ fg' = [pc |-> IF HasKey(cache, key) THEN "remove" ELSE "release",
              key |-> key, part |-> 1]
    /\ UNCHANGED <<sweeper, cacheVars, collectVars, extractVars, normVars, rateVars, raceVars, apiVars>>

\* line 219: one part of self._remove_entry(key)
DeleteRemove ==
    /\ fg.pc = "remove"
    /\ CommitPart(remove_entry_part(StateRec, fg.key, RemoveParts[fg.part], "delete"))
    /\ fg' = IF fg.part < Len(RemoveParts)
             THEN [fg EXCEPT !.part = @ + 1]
             ELSE [fg EXCEPT !.part = 1, !.pc = "release"]
    /\ UNCHANGED <<lock, sweeper, collectVars, extractVars, normVars, rateVars, raceVars, apiVars>>

\* lines 220-221: return, leaving the with block
DeleteRelease ==
    /\ fg.pc = "release"
    /\ lock' = lock \ {"fg"}
    /\ fg' = IdleForeground
    /\ UNCHANGED <<sweeper, cacheVars, collectVars, extractVars, normVars, rateVars, raceVars, apiVars>>

\* the calls of set the foreground thread makes beside the sweep
SweepSetRequests ==
    {r \in SetRequests : /\ r.value = Obj("s")
                         /\ r.priority = MEDIUM
                         /\ r.gzipOk
                         /\ r.ttl \in {NoTTL, 1}}

\* set(...), all of it inside `with self._lock` (lines 174-213)
LockedSet(r) ==
    /\ fg.pc = "idle"
    /\ lock_free(lock, "fg")
    /\ CacheSet(r.key, r.value, r.ttl, r.priority, TagsFor(r.key), r.gzipOk)

SweepInit ==
    /\ lock = {}
    /\ sweeper = SleepingSweeper
    /\ fg = IdleForeground

SweepNext ==
    \/ SweepAcquire
    \/ SweepList
    \/ SweepRemove
    \/ SweepRelease
    \/ \E key \in Keys : DeleteAcquire(key)
    \/ DeleteRemove
    \/ DeleteRelease
    \/ \E r \in SweepSetRequests : LockedSet(r)
    \/ CacheTick

(***************************************************************************)
(* The news API (get_news_api), the article-detail API                     *)
(* (get_article_detail) and the per-user cache they share.  A request is   *)
(* served in one step.                                                     *)
(***************************************************************************)
\* MAX_CACHE_ENTRIES is 50 and the trim 15 in the source; scaled down here
MAX_CACHE_ENTRIES == 1
USER_TRIM_COUNT == 1
\* limit = int(request.args.get('limit', 12)); if limit < 1 or limit > 50: limit = 12
DefaultPageLimit == 12
MaxPageLimit == 50
MaxRequests == 2

Users == {"u1", "u2"}
NewsTypes == {"all", "domestic", "bogus"}
PageInputs == {0, 1, 2}
LimitInputs == {0, 1, 51}
ArticleIds == {0, 1, 2}

\* RSS_FEEDS[...] as get_news_api picks it, in dict order
SourcesOf(news_type) ==
    CASE news_type = "all" -> <<"cafef_stocks", "cnbc">>
      [] news_type = "domestic" -> <<"cafef_stocks">>
      [] news_type = "international" -> <<"cnbc">>
      [] OTHER -> <<>>
ValidNewsTypes == {"all", "domestic", "international", "tech", "crypto"}
\* collect_news_enhanced(all_sources, 10) for 'all', (..., 15) otherwise
LimitPerSourceOf(news_type) == IF news_type = "all" THEN 10 ELSE 15

\* what the remote feeds hold; it stays the same while the requests are made
FeedChoices ==
    {[s \in Sources |-> IF s = "cafef_stocks" THEN <<eA, eC>> ELSE <<ea>>],
     [s \in Sources |-> IF s = "cafef_stocks" THEN <<eB>> ELSE <<>>]}

\* collect_news_enhanced(sources_dict, limit_per_source) run to its end, every
\* task having finished: [news, admitted, G]
collect_news_enhanced(source_list, feeds, limit_per_source, G, now) ==
    LET G0 == clean_expired_cache(G, now)
        results == [i \in 1..Len(source_list) |->
                       process_rss_feed_async(source_list[i], feeds[source_list[i]],
                                              limit_per_source, FALSE, now)]
        M == MergeResults([news |-> <<>>, G |-> G0], results, TRUE, now)
    IN  [news |-> sort_newest_first(M.news), admitted |-> M.news, G |-> M.G]

\* a slice that takes the element at end_index too
SliceThroughEnd(list, start_index, end_index) ==
    IF start_index >= Len(list) THEN <<>>
    ELSE SubSeq(list, start_index + 1, Min(end_index + 1, Len(list)))

\* all_news[start_index:end_index]
Slice(list, start_index, end_index) ==
    IF start_index >= Len(list) THEN <<>>
    ELSE SubSeq(list, start_index + 1, Min(end_index, Len(list)))

NoUsers == [u \in {} |-> 0]

\* the oldest_users loop of save_user_news_enhanced: drop the k oldest entries
\* a trim that takes the entries saved last
RECURSIVE DropNewest(_, _)
DropNewest(C, k) ==
    IF k = 0 \/ DOMAIN C = {} THEN C
    ELSE LET newest == CHOOSE u \in DOMAIN C :
                           \A v \in DOMAIN C : C[u].timestamp >= C[v].timestamp
         IN  DropNewest([u \in (DOMAIN C) \ {newest} |-> C[u]], k - 1)

RECURSIVE DropOldest(_, _)
DropOldest(C, k) ==
    IF k = 0 \/ DOMAIN C = {} THEN C
    ELSE LET oldest == CHOOSE u \in DOMAIN C :
                           \A v \in DOMAIN C : C[u].timestamp <= C[v].timestamp
         IN  DropOldest([u \in (DOMAIN C) \ {oldest} |-> C[u]], k - 1)

\* save_user_news_enhanced(user_id, news_list, command_type)
save_user_news_enhanced(C, user_id, news_list, command_type, now) ==
    LET entry == [news |-> news_list, command |-> command_type, current_page |-> 1,
                  timestamp |-> now, total_articles |-> Len(news_list)]
        C1 == [u \in (DOMAIN C) \cup {user_id} |-> IF u = user_id THEN entry ELSE C[u]]
    IN  IF Cardinality(DOMAIN C1) > MAX_CACHE_ENTRIES
        THEN DropOldest(C1, USER_TRIM_COUNT)
        ELSE C1

\* ids that count from the start of the page
FormatNewsPageLocal(page_news, start_index) ==
    [i \in 1..Len(page_news) |->
        [id |-> i - 1, title |-> page_news[i].title,
         link |-> page_news[i].link, source |-> page_news[i].source]]

\* the formatted_news loop: 'id': start_index + i
FormatNews(page_news, start_index) ==
    [i \in 1..Len(page_news) |->
        [id |-> start_index + (i - 1), title |-> page_news[i].title,
         link |-> page_news[i].link, source |-> page_news[i].source]]

NoResponse ==
    [kind |-> "none", user |-> "u1", news_type |-> "none", req_page |-> 0,
     req_limit |-> 0, article_id |-> 0, status |-> 0, error_code |-> "none",
     news |-> <<>>, page |-> 0, items_per_page |-> 0, total_pages |-> 0,
     total_articles |-> 0, link |-> <<>>, extractor |-> "none"]

\* get_news_api(news_type) with ?page=&limit=, for the session of user_id
NewsRequest(user_id, news_type, req_page, req_limit) ==
    /\ request_seq < MaxRequests
    /\ LET page == IF req_page < 1 THEN 1 ELSE req_page
           limit == IF req_limit < 1 \/ req_limit > MaxPageLimit
                    THEN DefaultPageLimit ELSE req_limit
           request == [NoResponse EXCEPT !.kind = "news", !.user = user_id,
                                         !.news_type = news_type,
                                         !.req_page = req_page, !.req_limit = req_limit]
       IN  IF news_type \notin ValidNewsTypes
           THEN /\ resp' = [request EXCEPT !.status = 400]
                /\ UNCHANGED <<user_news_cache, issued, request_seq,
                               global_seen_articles, admitted, all_news>>
           ELSE \E c \in {collect_news_enhanced(SourcesOf(news_type), rss_feeds,
                                                 LimitPerSourceOf(news_type),
                                                 global_seen_articles, wall_clock)} :
                LET items_per_page == limit
                    start_index == (page - 1) * items_per_page
                    end_index == start_index + items_per_page
                    page_news == Slice(c.news, start_index, end_index)
                    formatted_news == FormatNews(page_news, start_index)
                IN  /\ global_seen_articles' = c.G
                    /\ admitted' = c.admitted
                    /\ all_news' = c.news
                    /\ user_news_cache' =
                           save_user_news_enhanced(user_news_cache, user_id, c.news,
                                                   <<news_type, page>>, request_seq + 1)
                    /\ request_seq' = request_seq + 1
                    /\ issued' = [issued EXCEPT ![user_id] =
                                     [i \in 1..Len(formatted_news) |->
                                         [id |-> formatted_news[i].id,
                                          link |-> formatted_news[i].link]]]
                    /\ resp' = [request EXCEPT
                                   !.status = 200,
                                   !.news = formatted_news,
                                   !.page = page,
                                   !.items_per_page = items_per_page,
                                   !.total_pages =
                                       (Len(c.news) + items_per_page - 1) \div items_per_page,
                                   !.total_articles = Len(c.news)]
    /\ UNCHANGED <<rss_feeds, user_last_detail_cache, wall_clock, pc, call, tasks, elapsed,
                   cacheVars, extractVars, normVars, rateVars, concVars>>

\* get_article_detail(article_id), for the session of user_id
ArticleDetail(user_id, article_id) ==
    /\ LET request == [NoResponse EXCEPT !.kind = "detail", !.user = user_id,
                                         !.article_id = article_id]
       IN  IF user_id \notin DOMAIN user_news_cache
           THEN /\ resp' = [request EXCEPT !.status = 404,
                                           !.error_code = "SESSION_EXPIRED"]
                /\ UNCHANGED user_last_detail_cache
           ELSE LET news_list == user_news_cache[user_id].news IN
                IF news_list = <<>> \/ article_id < 0 \/ article_id >= Len(news_list)
                THEN /\ resp' = [request EXCEPT !.status = 404,
                                                !.error_code = "INVALID_ARTICLE_ID"]
                     /\ UNCHANGED user_last_detail_cache
                ELSE LET news == news_list[article_id + 1] IN
                     /\ user_last_detail_cache' =
                            [u \in (DOMAIN user_last_detail_cache) \cup {user_id} |->
                                IF u = user_id THEN news ELSE user_last_detail_cache[u]]
                     /\ resp' = [request EXCEPT
                                    !.status = 200,
                                    !.link = news.link,
                                    !.extractor =
                                        IF is_international_source(news.source)
                                        THEN "extract_content_with_gemini"
                                        ELSE "extract_content_enhanced"]
    /\ UNCHANGED <<rss_feeds, user_news_cache, issued, request_seq,
                   collectVars, cacheVars, extractVars, normVars, rateVars, concVars>>

\* MemoryOptimizer._clear_global_caches: both global dicts are cleared
ClearGlobalCaches ==
    /\ global_seen_articles' = <<>>
    /\ user_news_cache' = NoUsers
    /\ UNCHANGED <<rss_feeds, user_last_detail_cache, issued, request_seq, resp,
                   wall_clock, pc, call, tasks, elapsed, admitted, all_news,
                   cacheVars, extractVars, normVars, rateVars, concVars>>

ApiIdle ==
    /\ user_news_cache = NoUsers
    /\ user_last_detail_cache = NoUsers
    /\ issued = [u \in Users |-> <<>>]
    /\ request_seq = 0
    /\ resp = NoResponse

ApiInit ==
    /\ rss_feeds = [s \in Sources |-> <<>>]
    /\ ApiIdle

ApiNext ==
    \/ \E user_id \in Users, news_type \in NewsTypes, req_page \in PageInputs,
          req_limit \in LimitInputs :
          NewsRequest(user_id, news_type, req_page, req_limit)
    \/ \E user_id \in Users, article_id \in ArticleIds : ArticleDetail(user_id, article_id)
    \/ ClearGlobalCaches
    \/ HourTick

(***************************************************************************)
(* The terminal WebSocket: rate limiting of terminal_command               *)
(* (src/api/terminal-websocket.py).                                        *)
(***************************************************************************)
\* deque(maxlen=10), rate_limit_window = 60, rate_limit_max = 30, scaled
RateDequeMaxLen == 1
rate_limit_window == 2
rate_limit_max == 3
MaxRateClock == 4
MaxCommands == 5
TerminalSessions == {"s1", "s2"}
Commands == {"", "help"}

\* deque.append with maxlen: a full deque drops its leftmost element
DequeAppend(d, x) ==
    IF Len(d) >= RateDequeMaxLen THEN Tail(d) \o <<x>> ELSE Append(d, x)

\* the while loop: popleft while the oldest request is outside the window
RECURSIVE DropOld(_, _)
DropOld(user_requests, current_time) ==
    IF user_requests # <<>> /\ current_time - Head(user_requests) > rate_limit_window
    THEN DropOld(Tail(user_requests), current_time)
    ELSE user_requests

\* _check_rate_limit(session_id): what it returns and the deque it leaves
check_rate_limit(user_requests, current_time) ==
    LET kept == DropOld(user_requests, current_time)
    IN  IF Len(kept) >= rate_limit_max
        THEN [ok |-> FALSE, requests |-> kept]
        ELSE [ok |-> TRUE, requests |-> DequeAppend(kept, current_time)]

CommandsExecuted ==
    LET RECURSIVE Sum(_)
        Sum(S) == IF S = {} THEN 0
                  ELSE LET x == CHOOSE y \in S : TRUE IN Len(executed[x]) + Sum(S \ {x})
    IN  Sum(TerminalSessions)

\* handle_terminal_command(data) for an active session
handle_terminal_command(session_id, command) ==
    /\ CommandsExecuted < MaxCommands
    /\ LET r == check_rate_limit(rate_limits[session_id], rate_now) IN
       /\ rate_limits' = [rate_limits EXCEPT ![session_id] = r.requests]
       /\ IF ~r.ok
          THEN /\ rate_reply' = [session |-> session_id, message |-> "Rate limit exceeded"]
               /\ UNCHANGED executed
          ELSE IF command = ""
          THEN /\ rate_reply' = [session |-> session_id, message |-> "Empty command"]
               /\ UNCHANGED executed
          ELSE /\ rate_reply' = [session |-> session_id, message |-> "terminal_message"]
               /\ executed' = [executed EXCEPT ![session_id] = Append(@, rate_now)]
    /\ UNCHANGED <<rate_now, cacheVars, collectVars, extractVars, normVars, concVars, apiVars>>

RateTick ==
    /\ rate_now < MaxRateClock
    /\ rate_now' = rate_now + 1
    /\ UNCHANGED <<rate_limits, executed, rate_reply, cacheVars, collectVars, extractVars,
                   normVars, concVars, apiVars>>

RateInit ==
    /\ rate_limits = [s \in TerminalSessions |-> <<>>]
    /\ rate_now = 0
    /\ executed = [s \in TerminalSessions |-> <<>>]
    /\ rate_reply = [session |-> "none", message |-> "none"]

RateNext ==
    \/ \E session_id \in TerminalSessions, command \in Commands :
          handle_terminal_command(session_id, command)
    \/ RateTick

Init == CacheInit /\ CollectInit /\ ExtractInit /\ NormInit /\ RaceInit /\ SweepInit /\ RateInit /\ ApiInit

SpecCache == Init /\ [][CacheNext]_vars

InitWide ==
    CacheInitWide /\ CollectInit /\ ExtractInit /\ NormInit /\ RaceInit /\ SweepInit /\ RateInit /\ ApiInit

SpecCacheWide == InitWide /\ [][CacheNext]_vars

\* the cache used with tag lists of every shape: none, one tag, two tags, one
\* tag given twice; a key may be stored again under other tags
TagLists == {<<>>, <<"t">>, <<"u", "t">>, <<"t", "t">>}
TaggedKeys == {"k1", "k2"}
TagsNext ==
    \/ \E key \in TaggedKeys, id \in ValueIds, ttl \in {NoTTL, 1},
          priority \in {MEDIUM, DISPOSABLE}, tagList \in TagLists :
          CacheSet(key, Obj(id), ttl, priority, tagList, TRUE)
    \/ \E key \in TaggedKeys : CacheGet(key)
    \/ \E key \in TaggedKeys : CacheDelete(key)
    \/ CacheClear
    \/ \E tag \in {"t", "u"} : CacheClearByTag(tag)
    \/ CacheClearExpired
    \/ \E target_bytes \in OptimizeTargets : CacheOptimize(target_bytes, TRUE)
    \/ CacheTick

SpecTags == Init /\ [][TagsNext]_vars

\* set called with values on every side of the compression rule: below the
\* threshold, well compressible, incompressible, and compressible to exactly 80%
CompressValueIds == {"s", "c", "u", "b"}
CompressNext ==
    \E key \in Keys, id \in CompressValueIds, priority \in InputPriorities :
        CacheSet(key, Obj(id), NoTTL, priority, TagsFor(key), TRUE)

SpecCompress == Init /\ [][CompressNext]_vars

SpecCollect == Init /\ [][CollectNext]_vars

\* the same calls over the feeds of variant titles
CollectVariantsNext ==
    \/ \E sources \in SourceLists, limit_per_source \in LimitsPerSource,
          use_global_dedup \in BOOLEAN :
          CollectStart(sources, limit_per_source, use_global_dedup)
    \/ \E i \in 1..MaxSources, feed \in VariantFeeds, raises \in BOOLEAN :
          TaskFinish(i, feed, raises)
    \/ GatherWait
    \/ CollectReturn
    \/ HourTick

SpecCollectVariants == Init /\ [][CollectVariantsNext]_vars

(***************************************************************************)
(* The network attempts of process_rss_feed_async.  A task records what    *)
(* fetch_with_aiohttp returned, the fetches made for its source, the feed  *)
(* parsed, and whether its source had failed in the call before.           *)
(***************************************************************************)
\* an entry whose processing raises inside the loop body
eM == [Entry(<<"M">>, <<"m">>, 1, TRUE, TRUE) EXCEPT !.raises = TRUE]
\* a keyword in the description alone, and one in the title alone, in capitals
eK == [Entry(<<"C">>, <<"k">>, 1, TRUE, TRUE) EXCEPT !.description = <<"c", "B">>]
eU == [Entry(<<"C", "A">>, <<"q">>, 2, FALSE, TRUE) EXCEPT !.description = <<>>]
FetchFeeds == {<<>>, <<ea, eA>>, <<eM, eC, ea>>, <<eN, eA, eC>>, <<eK, eU>>}
FailedOutcomes == {"raised", "nofeed"}

FailedBefore(source_name) ==
    \E j \in 1..Len(tasks) :
        j <= Len(call.sources) /\ call.sources[j] = source_name
            /\ tasks[j].outcome \in FailedOutcomes

\* lines 751-762, one task per source
FetchStart(sources, limit_per_source) ==
    /\ pc = "idle"
    /\ call' = [sources |-> sources, limit |-> limit_per_source,
                dedup |-> FALSE, at |-> wall_clock]
    /\ tasks' = [i \in 1..Len(sources) |->
                    [status |-> "pending", outcome |-> "none", result |-> <<>>,
                     content |-> "None", attempts |-> <<>>, feed |-> <<>>,
                     failed_before |-> FailedBefore(sources[i])]]
    /\ pc' = "gather"
    /\ elapsed' = 0
    /\ admitted' = <<>>
    /\ all_news' = <<>>
    /\ UNCHANGED <<global_seen_articles, wall_clock, cacheVars, extractVars, normVars, rateVars,
                   concVars, apiVars>>

\* lines 664-669: one fetch_with_aiohttp; feedparser.parse is given the bytes
\* when they are truthy and the URL otherwise
FetchAttempts(content) ==
    IF Truthy(content) THEN <<"bytes">> ELSE <<"bytes", "parser">>

\* one task runs to its end: fetched is what the HTTP GET does, feed what
\* feedparser.parse gives, raises an exception in the body after the fetches
TaskRun(i, fetched, feed, raises) ==
    /\ pc = "gather"
    /\ i \in 1..Len(tasks)
    /\ Pending(i)
    /\ LET content == fetch_with_aiohttp(fetched) IN
       tasks' = [tasks EXCEPT ![i] =
                    [@ EXCEPT !.status = "done",
                              !.outcome = IF raises THEN "raised"
                                          ELSE IF Len(feed) = 0 THEN "nofeed" ELSE "ok",
                              !.result = process_rss_feed_async(call.sources[i], feed,
                                                                call.limit, raises, wall_clock),
                              !.content = content,
                              !.attempts = FetchAttempts(content),
                              !.feed = feed]]
    /\ UNCHANGED <<global_seen_articles, wall_clock, pc, call, elapsed, admitted, all_news,
                   cacheVars, extractVars, normVars, rateVars, concVars, apiVars>>

FetchNext ==
    \/ \E sources \in SourceLists, limit_per_source \in LimitsPerSource :
          FetchStart(sources, limit_per_source)
    \/ \E i \in 1..MaxSources, fetched \in FetchOutcomes, feed \in FetchFeeds,
          raises \in BOOLEAN : TaskRun(i, fetched, feed, raises)
    \/ CollectReturn

SpecFetch == Init /\ [][FetchNext]_vars

SpecExtract == Init /\ [][ExtractNext]_vars

\* two request threads and the optimizer over the global dedup cache
RaceInitAll ==
    /\ CacheInit /\ ExtractInit /\ NormInit /\ RaceInit /\ SweepInit /\ RateInit /\ ApiInit
    /\ CollectIdle
    /\ global_seen_articles \in RaceTables

SpecDedupRace == RaceInitAll /\ [][RaceNext]_vars

\* the cleanup thread beside a foreground thread
SpecSweep == Init /\ [][SweepNext]_vars

\* news and article-detail requests over feeds that stay as they are
InitApi ==
    /\ CacheInit /\ CollectInit /\ ExtractInit /\ NormInit /\ RaceInit /\ SweepInit /\ RateInit
    /\ rss_feeds \in FeedChoices
    /\ ApiIdle

SpecApi == InitApi /\ [][ApiNext]_vars

InitNormalize ==
    CacheInit /\ CollectInit /\ ExtractInit /\ NormInputs /\ RaceInit /\ SweepInit /\ RateInit /\ ApiInit

SpecNormalize == InitNormalize /\ [][NormalizeTitle]_vars

\* terminal commands of two sessions as time passes
SpecRate == Init /\ [][RateNext]_vars

(***************************************************************************)
(* Claims about the cache.                                                 *)
(***************************************************************************)
EvictionCauses == {"lru", "priority", "memory", "optimize_lru"}
LogCauses == {log[i].cause : i \in 1..Len(log)}

\* C1: after any sequence of set, get, delete, clear, clear_by_tag,
\* clear_expired and optimize_memory calls, with the evictions and runtime
\* compressions they trigger, _current_memory is the sum of size_bytes over
\* the entries in the table.
C1_MemoryAccounting == current_memory = SumSizes(cache)

\* an eviction under pressure has happened and entries remain
C1_Witness ==
    /\ LogCauses \cap EvictionCauses # {}
    /\ Len(cache) > 0
    /\ current_memory > 0

\* C2: when set(key, v) returns true, a get(key) that follows at once, before
\* the TTL elapses, returns v, whether the entry is stored compressed or not.
C2_RoundTrip ==
    \A r \in SetRequests :
        LET s == set_result(StateRec, r.key, r.value, r.ttl, r.priority,
                            TagsFor(r.key), clock, r.gzipOk)
        IN  s.ok => get_result(s.S, r.key, clock).value = r.value

\* C3: for a key stored by set with ttl = T >= 0, a get at a time later than
\* insertion + T returns the default and leaves no entry for the key.
C3_TTLExpiry ==
    \A r \in SetRequests :
        LET s == set_result(StateRec, r.key, r.value, r.ttl, r.priority,
                            TagsFor(r.key), clock, r.gzipOk)
        IN  (s.ok /\ r.ttl >= 0) =>
                \A t \in clock..(MaxClock + 1) :
                    t > clock + r.ttl =>
                        LET g == get_result(s.S, r.key, t)
                        IN  ~g.hit /\ g.value = NoneValue /\ ~HasKey(g.S.cache, r.key)

\* C10: an entry of priority CRITICAL is never removed by eviction; it leaves
\* the table only by delete, clear, clear_by_tag, replacement by set on its
\* key, or expiry.
C10_CriticalNeverEvicted ==
    \A i \in 1..Len(log) :
        log[i].priority = CRITICAL => log[i].cause \notin EvictionCauses

(***************************************************************************)
(* Claims about collect_news_enhanced.                                     *)
(***************************************************************************)
Returned == pc = "idle" /\ Len(tasks) > 0
ResultItems == UNION {SeqToSet(tasks[i].result) : i \in 1..Len(tasks)}
Returns(x) == \E j \in 1..Len(all_news) : all_news[j] = x

\* C4: no list returned by one collect call holds two articles whose titles
\* normalize to the same string, whatever the sources and the dedup cache.
C4_DedupSymmetry ==
    \A i, j \in 1..Len(all_news) :
        i # j => normalize_title(all_news[i].title) # normalize_title(all_news[j].title)

\* a call without global dedup dropped an article whose title differs from a
\* returned one only in case, punctuation or whitespace
C4_Witness ==
    /\ Returned
    /\ ~call.dedup
    /\ \E x \in ResultItems : \E j \in 1..Len(all_news) :
          /\ ~Returns(x)
          /\ x.title # all_news[j].title
          /\ normalize_title(x.title) = normalize_title(all_news[j].title)

WithinWindow(r, now) == now - r.timestamp <= CACHE_EXPIRE_HOURS
OwnRecords(x) ==
    {i \in 1..Len(global_seen_articles) :
        /\ global_seen_articles[i].title = x.title
        /\ global_seen_articles[i].link = x.link}
CandidateItems ==
    UNION {SeqToSet(EntryItems(e, src, wall_clock)) : e \in FeedEntries, src \in Sources}

\* C5: with global dedup on, an article admitted by a collect call is rejected
\* by every later call made within CACHE_EXPIRE_HOURS of the admission while
\* its record is cached, and is admitted again once the window has passed and
\* the record is swept.
C5_CrossCallDedup ==
    /\ (Returned /\ call.dedup /\ call.at = wall_clock) =>
          \A x \in ResultItems :
              (\E i \in OwnRecords(x) :
                  /\ global_seen_articles[i].timestamp < call.at
                  /\ WithinWindow(global_seen_articles[i], call.at))
              => ~Returns(x)
    /\ \A x \in CandidateItems :
          LET d == is_duplicate_article_global(x, x.source, global_seen_articles, wall_clock)
          IN  /\ (\E i \in OwnRecords(x) : WithinWindow(global_seen_articles[i], wall_clock))
                    => d.dup
              /\ (/\ OwnRecords(x) # {}
                  /\ \A i \in 1..Len(global_seen_articles) :
                        WithinWindow(global_seen_articles[i], wall_clock)
                            => ~MatchesRecord(x, global_seen_articles[i]))
                    => /\ ~d.dup
                       /\ \E i \in 1..Len(d.G) :
                             /\ d.G[i].title = x.title /\ d.G[i].link = x.link
                             /\ d.G[i].timestamp = wall_clock

\* a later call, made at the last hour of the window, rejected an article
\* whose record an earlier call had stored
C5_Witness ==
    /\ Returned
    /\ call.dedup
    /\ call.at = wall_clock
    /\ \E x \in ResultItems :
          /\ ~Returns(x)
          /\ \E i \in OwnRecords(x) :
                global_seen_articles[i].timestamp + CACHE_EXPIRE_HOURS = call.at

FailedTask(i) == tasks[i].outcome \in {"raised", "nofeed"}
RECURSIVE ResultsWithoutFailed(_)
ResultsWithoutFailed(i) ==
    IF i > Len(tasks) THEN <<>>
    ELSE (IF FailedTask(i) THEN <<>> ELSE <<tasks[i].result>>)
             \o ResultsWithoutFailed(i + 1)

\* C6: a source whose fetch or parse fails or raises contributes no article,
\* and the list collect returns is the list the call would return without
\* that source.
C6_FailureIsolation ==
    [][(pc = "gather" /\ pc' = "idle") =>
          LET M == MergeResults([news |-> <<>>, G |-> global_seen_articles],
                                ResultsWithoutFailed(1), call.dedup, wall_clock)
          IN  /\ all_news' = sort_newest_first(M.news)
              /\ \A i \in 1..Len(tasks) :
                    FailedTask(i) =>
                        \A j \in 1..Len(all_news') : all_news'[j].source # call.sources[i]
      ]_vars

\* a call returned articles of one source while the other source's task raised
C6_Witness ==
    /\ Returned
    /\ Len(all_news) > 0
    /\ \E i \in 1..Len(tasks) : tasks[i].outcome = "raised"
    /\ \E i \in 1..Len(tasks) : tasks[i].outcome = "ok" /\ Len(tasks[i].result) > 0

\* C7: collect returns once its overall wall-clock budget has passed, even
\* with source tasks still pending: it never waits for a task beyond the budget.
C7_OverallDeadline ==
    (pc = "gather" /\ \E i \in 1..Len(tasks) : Pending(i)) => elapsed <= WallClockBudget

PositionOf(seq, x) == CHOOSE k \in 1..Len(seq) : seq[k] = x

\* C9: the list collect returns holds the admitted articles ordered by
\* published, newest first; articles with equal published keep the order in
\* which they were admitted.
C9_NewestFirst ==
    /\ Len(all_news) = Len(admitted)
    /\ \A k \in 1..Len(admitted) : Returns(admitted[k])
    /\ \A i, j \in 1..Len(all_news) :
          i < j =>
              /\ all_news[i].published >= all_news[j].published
              /\ all_news[i].published = all_news[j].published
                    => PositionOf(admitted, all_news[i]) < PositionOf(admitted, all_news[j])

\* a call returned two articles of equal published and moved a newer article
\* ahead of an older one admitted before it
C9_Witness ==
    /\ Returned
    /\ all_news # admitted
    /\ \E i, j \in 1..Len(all_news) :
          i < j /\ all_news[i].published = all_news[j].published

(***************************************************************************)
(* Claims about the extraction chain.                                      *)
(***************************************************************************)
FailureReasons ==
    {"Network fetch failed", "All extraction methods failed", "Gemini AI module offline",
     "Gemini access blocked by target site", "Extracted content below minimum threshold",
     "Gemini AI timeout exceeded", "Gemini processing error"}
StrategyFailed(t) ==
    \/ t.raises
    \/ t.blocked
    \/ t.strategy = "gemini" /\ t.len <= MinGeminiLength
    \/ t.strategy # "gemini" /\ t.len <= MinExtractedLength /\ t.len2 <= MinExtractedLength
FetchFailed == ext_call.mode = "enhanced" /\ ext_content # "bytes"
AllStrategiesFailed == \A k \in 1..Len(ext_tried) : StrategyFailed(ext_tried[k])

\* C8: the extraction chain always returns; when the page fetch fails, or
\* every strategy fails or raises, it returns the fallback placeholder built
\* from the source name and the reason of the failure.
C8_FallbackTermination ==
    ext_pc = "done" =>
        /\ ext_result.kind \in {"formatted", "fallback"}
        /\ (FetchFailed \/ AllStrategiesFailed) =>
              /\ ext_result.kind = "fallback"
              /\ ext_result.source_name = ext_call.source_name
              /\ ext_result.error_msg \in FailureReasons

\* the three strategies ran, one raised, none yielded enough text, and the
\* call returned the placeholder
C8_Witness ==
    /\ ext_pc = "done"
    /\ Len(ext_tried) = 3
    /\ AllStrategiesFailed
    /\ \E k \in 1..Len(ext_tried) : ext_tried[k].raises
    /\ \E k \in 1..Len(ext_tried) : ~ext_tried[k].raises
    /\ ext_result.kind = "fallback"

(***************************************************************************)
(* Claims about the cache's ceilings.                                      *)
(***************************************************************************)
\* C11: set stores a value only when there is room for it or room has been
\* made, so after any set call returns _current_memory <= max_memory_bytes.
C11_MemoryCeiling == current_memory <= max_memory_bytes

\* C12: the table never holds more than max_size entries.
C12_CountCeiling == Len(cache) <= max_size

\* a set on a full table has evicted the least recently used entry and stored
\* its own
C12_Witness ==
    /\ Len(cache) = max_size
    /\ "lru" \in LogCauses

(***************************************************************************)
(* Claims about normalize_title.                                           *)
(***************************************************************************)
\* C13: normalize_title(normalize_title(s)) = normalize_title(s) for every
\* string s of bounded length over letters, spaces and the stripped characters.
C13_Idempotent ==
    Len(norm_output) = 2 => norm_output[2] = norm_output[1]

IsLowerCase(str) == lower(str) = str
NoRunOfWhitespace(str) ==
    \A i \in 1..(Len(str) - 1) : ~(str[i] \in Whitespace /\ str[i + 1] \in Whitespace)
NoOuterWhitespace(str) ==
    str # <<>> => (str[1] \notin Whitespace /\ str[Len(str)] \notin Whitespace)

\* C14: what normalize_title returns is lower-case, holds none of the stripped
\* punctuation and quote characters, no run of two or more whitespace
\* characters and no leading or trailing whitespace; the example title
\* "  Stocks Rise -- Big Time!  " maps to "stocks rise big time".
C14_OutputForm ==
    Len(norm_output) >= 1 =>
        LET out == norm_output[1] IN
        /\ IsLowerCase(out)
        /\ \A i \in 1..Len(out) : out[i] \notin Punctuation \cup QuoteChars
        /\ NoRunOfWhitespace(out)
        /\ NoOuterWhitespace(out)
        /\ norm_input = ExampleTitle => out = <<"a", " ", "b", " ", "c", " ", "x">>

(***************************************************************************)
(* Claims about the duplicate criterion.                                   *)
(***************************************************************************)
\* a title without its case and without the stripped characters
Skeleton(str) == remove_chars(lower(str), Punctuation \cup QuoteChars)
SameUpToCaseAndPunctuation(x, y) == Skeleton(x.title) = Skeleton(y.title)
\* the call's parsed items in the order the merge loop processes them
RECURSIVE Processed(_)
Processed(i) ==
    IF i > Len(tasks) THEN <<>> ELSE tasks[i].result \o Processed(i + 1)
LinkOf(x) == strip(lower(x.link))
\* no two items of different titles share a link
NoLinkClash ==
    \A x, y \in ResultItems :
        LinkOf(x) = LinkOf(y) => SameUpToCaseAndPunctuation(x, y)

\* C15: in a collect call that starts with an empty global dedup cache, of the
\* parsed entries whose titles differ only in case or punctuation exactly one
\* is returned: the first one processed.
C15_VariantsCollapse ==
    [][(pc = "gather" /\ pc' = "idle" /\ global_seen_articles = <<>> /\ NoLinkClash) =>
          LET items == Processed(1) IN
          \A k \in 1..Len(items) :
              LET first == CHOOSE j \in 1..k :
                               /\ SameUpToCaseAndPunctuation(items[j], items[k])
                               /\ \A h \in 1..(j - 1) :
                                     ~SameUpToCaseAndPunctuation(items[h], items[k])
              IN  \A n \in 1..Len(all_news') :
                      SameUpToCaseAndPunctuation(all_news'[n], items[k])
                          => all_news'[n] = items[first]
      ]_vars

\* cache_key of is_duplicate_article_global
DedupKey(x) == normalize_title(x.title) \o <<"|">> \o LinkOf(x)
LiveRecords == clean_expired_cache(global_seen_articles, wall_clock)
\* the merge loop, given the list accumulated so far, rejects candidate x
Rejects(x, use_global_dedup) ==
    MergeItems([news |-> admitted, G |-> global_seen_articles], <<x>>,
               use_global_dedup, wall_clock).news = admitted

\* C16 as stated: collect rejects an article iff its DedupKey equals the
\* DedupKey of an article accumulated in this call or of a live record of the
\* global dedup cache.
C16_KeyIsSoleCriterion ==
    pc = "idle" =>
    \A x \in CandidateItems, use_global_dedup \in BOOLEAN :
        Rejects(x, use_global_dedup) <=>
            \/ \E k \in 1..Len(admitted) : DedupKey(admitted[k]) = DedupKey(x)
            \/ /\ use_global_dedup
               /\ \E i \in 1..Len(LiveRecords) : LiveRecords[i].key = DedupKey(x)

\* C16 amended: collect rejects an article iff its normalized title equals
\* that of an article accumulated in this call or, with global dedup on, its
\* normalized title or its lower-cased, trimmed link equals that of a live
\* record of the global dedup cache.
C16_TitleOrLinkCriterion ==
    pc = "idle" =>
    \A x \in CandidateItems, use_global_dedup \in BOOLEAN :
        Rejects(x, use_global_dedup) <=>
            \/ \E k \in 1..Len(admitted) :
                  normalize_title(admitted[k].title) = normalize_title(x.title)
            \/ /\ use_global_dedup
               /\ \E i \in 1..Len(LiveRecords) :
                     \/ normalize_title(LiveRecords[i].title) = normalize_title(x.title)
                     \/ LinkOf(LiveRecords[i]) = LinkOf(x)

\* a call with global dedup rejected an article whose DedupKey is that of no
\* returned article and of no record: its link alone matched a live record
C16_Witness ==
    /\ Returned
    /\ call.dedup
    /\ call.at = wall_clock
    /\ \E x \in ResultItems :
          /\ ~Returns(x)
          /\ \A k \in 1..Len(all_news) : DedupKey(all_news[k]) # DedupKey(x)
          /\ \A i \in 1..Len(LiveRecords) : LiveRecords[i].key # DedupKey(x)
          /\ \A k \in 1..Len(all_news) :
                normalize_title(all_news[k].title) # normalize_title(x.title)
          /\ \E i \in 1..Len(LiveRecords) : LinkOf(LiveRecords[i]) = LinkOf(x)

\* ---------------------------------------------------------------------------
\* Parallelism of a collect call (collect_news_enhanced, lines 758-765)
\* ---------------------------------------------------------------------------

\* the concurrency limit of the configuration; collect_news_enhanced takes
\* sources_dict, limit_per_source and use_global_dedup and reads no such limit
MaxConcurrency == 1

\* tasks handed to asyncio.gather (line 765) that have not finished: gather
\* schedules every coroutine at once and each suspends at its first await
\* (line 662), so every pending task is in flight
InFlight ==
    IF pc = "gather" THEN Cardinality({i \in 1..Len(tasks) : Pending(i)}) ELSE 0

\* C17: during a collect call the number of source tasks in flight never
\* exceeds the configured maximum concurrency (larger source sets are chunked)
C17_BoundedParallelism ==
    InFlight <= MaxConcurrency

\* ---------------------------------------------------------------------------
\* Claims about concurrent use of the shared caches
\* ---------------------------------------------------------------------------
Admitted(t) == thr[t].pc = "done" /\ ~thr[t].dup

\* both calls admitted one article though nothing cleared the table meanwhile
AdmittedByBoth ==
    \E t \in Threads : \E u \in Threads \ {t} :
        /\ Admitted(t) /\ Admitted(u)
        /\ normalize_title(thr[t].item.title) = normalize_title(thr[u].item.title)
        /\ ~cleared

\* a call about to insert whose check no longer holds: a matching record is there
StaleCheck ==
    \E t \in Threads :
        /\ thr[t].pc = "insert"
        /\ \E i \in 1..Len(global_seen_articles) :
               MatchesRecord(thr[t].item, global_seen_articles[i])

Iterating == \E t \in Threads : thr[t].pc = "scan"

\* C18: mutations of the global dedup cache are serialized: under any
\* interleaving of two collect calls and the optimizer's clear, the
\* check-then-insert of is_duplicate_article_global is atomic, the same
\* article is never admitted by both calls, and the table is never mutated
\* while a call iterates it.
C18_SerializedDedup ==
    /\ [](~AdmittedByBoth /\ ~StaleCheck)
    /\ [][Iterating => global_seen_articles' = global_seen_articles]_vars

\* the tag index the table calls for: per tag in use, the keys that carry it
TagIndexOf(c) ==
    LET used == UNION {SeqToSet(c[i].tags) : i \in 1..Len(c)}
    IN  [t \in used |-> {c[i].key : i \in {j \in 1..Len(c) : t \in SeqToSet(c[j].tags)}}]

Consistent ==
    /\ current_memory = SumSizes(cache)
    /\ tags_index = TagIndexOf(cache)

\* C19: the cleanup thread removes expired entries only while it holds
\* _lock, the lock the foreground operations hold; under any interleaving
\* of the sweep with them, whenever the lock is free the memory counter is
\* the sum of the entry sizes and the tag index matches the table.
C19_SweepUnderLock ==
    /\ sweeper.pc \in {"list", "remove", "release"} => lock = {"sweep"}
    /\ fg.pc \in {"remove", "release"} => lock = {"fg"}
    /\ lock = {} => Consistent

\* the sweep is halfway through removing an expired entry, under the lock
C19_Witness ==
    /\ sweeper.pc = "remove"
    /\ sweeper.part > 1
    /\ lock = {"sweep"}
    /\ ~Consistent

\* ---------------------------------------------------------------------------
\* Claims about the articles returned
\* ---------------------------------------------------------------------------
HasTitleAndLink(news_item) == news_item.title # <<>> /\ news_item.link # <<>>

\* C20: every article in a list returned by process_rss_feed_async or by
\* collect has a non-empty title and a non-empty link.
C20_NonEmptyFields ==
    /\ \A i \in 1..Len(all_news) : HasTitleAndLink(all_news[i])
    /\ \A i \in 1..Len(tasks) :
           \A j \in 1..Len(tasks[i].result) : HasTitleAndLink(tasks[i].result[j])

\* ---------------------------------------------------------------------------
\* Claims about the news API and the article-detail API
\* ---------------------------------------------------------------------------
NewsServed(r) == r.kind = "news" /\ r.status = 200

C22_PagesOfOneList ==
    [][(/\ NewsServed(resp) /\ NewsServed(resp')
        /\ resp'.user = resp.user
        /\ resp'.news_type = resp.news_type
        /\ resp'.items_per_page = resp.items_per_page
        /\ resp'.page = resp.page + 1)
       => LET n == resp.items_per_page
              start_index == resp.page * n
          IN  resp'.news = FormatNews(Slice(all_news, start_index, start_index + n),
                                      start_index)]_vars

IssuedLink(user_id, article_id) ==
    LET k == CHOOSE j \in 1..Len(issued[user_id]) : issued[user_id][j].id = article_id
    IN  issued[user_id][k].link
WasIssued(user_id, article_id) ==
    \E j \in 1..Len(issued[user_id]) : issued[user_id][j].id = article_id

\* every id of a user's last news response is the index, in the list saved
\* for the user, of the article it was returned for
IdsAreSavedIndices ==
    \A u \in DOMAIN user_news_cache :
        \A j \in 1..Len(issued[u]) :
            /\ issued[u][j].id < Len(user_news_cache[u].news)
            /\ user_news_cache[u].news[issued[u][j].id + 1].link = issued[u][j].link

DetailServed == resp' # resp /\ resp'.kind = "detail"

HoldsRecordOf(G, x, now) ==
    \E i \in 1..Len(G) :
        /\ G[i].title = x.title
        /\ G[i].link = x.link
        /\ G[i].timestamp = now

\* C24: after every is_duplicate_article_global call the global dedup cache
\* holds at most MAX_GLOBAL_CACHE records, and the record the call has just
\* inserted is not among the records its trim deleted.
C24_BoundedGlobalCache ==
    /\ Len(global_seen_articles) <= MAX_GLOBAL_CACHE
    /\ \A x \in CandidateItems :
          LET d == is_duplicate_article_global(x, x.source, global_seen_articles, wall_clock)
          IN  /\ Len(d.G) <= MAX_GLOBAL_CACHE
              /\ ~d.dup => HoldsRecordOf(d.G, x, wall_clock)

\* a collect call with global dedup admitted more articles than the cache
\* holds: the cache is full, the record of an article admitted by this call
\* has been trimmed, and a further insertion trims again
C24_Witness ==
    /\ Returned
    /\ call.dedup
    /\ call.at = wall_clock
    /\ Len(global_seen_articles) = MAX_GLOBAL_CACHE
    /\ \E x \in ResultItems : Returns(x) /\ OwnRecords(x) = {}
    /\ \E x \in CandidateItems :
          LET G1 == clean_expired_cache(global_seen_articles, wall_clock)
              d == is_duplicate_article_global(x, x.source, global_seen_articles, wall_clock)
          IN  /\ ~d.dup
              /\ Len(G1) = MAX_GLOBAL_CACHE
              /\ \E i \in 1..Len(G1) : ~HoldsRecordOf(d.G, G1[i], G1[i].timestamp)

(***************************************************************************)
(* Claims about the order of the extraction strategies.                    *)
(***************************************************************************)
\* the order the specification gives: structured, selector search, secondary
\* structured, AI
ClaimedRank(strategy) ==
    IF strategy = "trafilatura" THEN 1
    ELSE IF strategy = "beautifulsoup" THEN 2
    ELSE IF strategy = "newspaper" THEN 3
    ELSE 4
\* the order of the blocks of extract_content_enhanced
CodeRank(strategy) ==
    IF strategy = "trafilatura" THEN 1
    ELSE IF strategy = "newspaper" THEN 2
    ELSE IF strategy = "beautifulsoup" THEN 3
    ELSE 4
AtOrAboveMinimum(t) ==
    /\ ~t.raises
    /\ ~t.format_raises
    /\ t.strategy # "gemini"
    /\ (t.len >= MinExtractedLength \/ t.len2 >= MinExtractedLength)
Succeeded(t) == ~StrategyFailed(t) /\ ~t.format_raises
LastTried == ext_tried[Len(ext_tried)]

Available(strategy) ==
    IF strategy = "trafilatura" THEN ext_call.TRAFILATURA_AVAILABLE
    ELSE IF strategy = "newspaper" THEN ext_call.NEWSPAPER_AVAILABLE
    ELSE ext_call.BEAUTIFULSOUP_AVAILABLE
Attempted(strategy) == \E k \in 1..Len(ext_tried) : ext_tried[k].strategy = strategy
\* raised, or yielded less than the minimum length
BelowMinimum(t) ==
    \/ t.raises
    \/ t.len < MinExtractedLength /\ t.len2 < MinExtractedLength

\* C26: when every strategy attempted raised or yielded content below the
\* minimum length, empty or not, every available strategy has been attempted
\* by the time the placeholder is returned.
C26_FallThrough ==
    (/\ ext_pc = "done"
     /\ ext_call.mode = "enhanced"
     /\ ext_content = "bytes"
     /\ \A k \in 1..Len(ext_tried) : BelowMinimum(ext_tried[k]))
    => /\ ext_result.kind = "fallback"
       /\ \A strategy \in {"trafilatura", "newspaper", "beautifulsoup"} :
             Available(strategy) => Attempted(strategy)

(***************************************************************************)
(* Claims about how set and optimize_memory free memory.                   *)
(***************************************************************************)
StoringRequests == {r \in SetRequests : r.value # NoneValue}
\* what _ensure_space does for the set request r made in this state
SpaceFor(r) ==
    ensure_space(StateRec, prepare_value(r.value, r.gzipOk).size_bytes, r.priority, clock)
MemoryEvictionCauses == {"priority", "memory"}
\* the entries still in the table when the i-th removal of a log was made
RemainingAt(removals, i) ==
    {e \in SeqToSet(cache) : \A j \in 1..i : removals[j].key # e.key}

\* C27: when set frees memory for a new entry, no entry is evicted while an
\* entry of a more disposable tier is still in the table.
C27_TierOrder ==
    \A r \in StoringRequests :
        LET removals == SpaceFor(r).S.log
        IN  \A i \in 1..Len(removals) :
                removals[i].cause \in MemoryEvictionCauses =>
                    \A e \in RemainingAt(removals, i) : e.priority <= removals[i].priority

OptimizeCauses == {"expired", "priority", "compressed", "optimize_lru"}
\* the bytes the i-th step of a log of optimize_memory freed: what compression
\* saved, or the size the entry had when it was removed
FreedBy(steps, i) ==
    LET e == EntryOf(cache, steps[i].key)
        gz == len(gzip_compress(e.value))
    IN  IF steps[i].cause = "compressed" THEN e.size_bytes - gz
        ELSE IF \E j \in 1..(i - 1) : steps[j].key = steps[i].key /\ steps[j].cause = "compressed"
             THEN gz
             ELSE e.size_bytes
RECURSIVE FreedBefore(_, _)
FreedBefore(steps, i) ==
    IF i <= 1 THEN 0 ELSE FreedBefore(steps, i - 1) + FreedBy(steps, i - 1)
TargetMet(memory, initial_memory, target5) == 5 * memory <= 5 * initial_memory - target5

\* C28: optimize_memory(target) sweeps the expired entries, evicts the
\* DISPOSABLE and LOW tiers, compresses, then evicts in LRU order; once
\* current memory <= initial memory - target it evicts or compresses no
\* further entry, and on return the target is met or the table is empty.
C28_StopsAtTarget ==
    \A target_bytes \in OptimizeTargets, gzipOk \in BOOLEAN :
        LET R == optimize_memory(StateRec, 5 * target_bytes, clock, gzipOk)
            steps == R.log
        IN  /\ \A i \in 1..Len(steps) : steps[i].cause \in OptimizeCauses
            /\ \A i, j \in 1..Len(steps) :
                  i < j => \/ steps[i].cause = steps[j].cause
                           \/ steps[i].cause = "expired"
                           \/ steps[j].cause = "optimize_lru"
                           \/ steps[i].cause = "priority" /\ steps[j].cause = "compressed"
            /\ \A i \in 1..Len(steps) :
                  steps[i].cause # "expired" =>
                      ~TargetMet(current_memory - FreedBefore(steps, i), current_memory,
                                 5 * target_bytes)
            /\ TargetMet(R.mem, current_memory, 5 * target_bytes) \/ R.cache = <<>>

\* the table set hands to _check_memory_pressure, and the one set leaves
Inserted(r) ==
    insert_entry(StateRec, r.key, r.value, r.ttl, r.priority, TagsFor(r.key), clock, r.gzipOk)
SetLeaves(r) ==
    set_result(StateRec, r.key, r.value, r.ttl, r.priority, TagsFor(r.key), clock, r.gzipOk)
AboveWarning(S) == 100 * S.mem > 80 * max_memory_bytes
AboveCritical(S) == 100 * S.mem > 95 * max_memory_bytes
\* optimize_memory ran on S1 and left S2: memory went down, or nothing is left
Optimized(S1, S2) == S2.mem < S1.mem \/ S2.cache = <<>>

\* C29 as stated: whenever a set leaves occupied memory above 80% of the
\* ceiling, optimize_memory runs as part of that set.
C29_OptimizeAboveWarning ==
    \A r \in StoringRequests :
        (Inserted(r).ok /\ AboveWarning(Inserted(r).S)) =>
            Optimized(Inserted(r).S, SetLeaves(r).S)

\* C29 (amended): when a set leaves occupied memory above 95% of the ceiling,
\* optimize_memory runs as part of that set with a target of 20% of the
\* ceiling; between 80% and 95% the set changes nothing after the insertion.
C29_OptimizeAboveCritical ==
    \A r \in StoringRequests :
        Inserted(r).ok =>
            IF AboveCritical(Inserted(r).S)
            THEN /\ Optimized(Inserted(r).S, SetLeaves(r).S)
                 /\ \/ TargetMet(SetLeaves(r).S.mem, Inserted(r).S.mem, max_memory_bytes)
                    \/ SetLeaves(r).S.cache = <<>>
            ELSE SetLeaves(r).S = Inserted(r).S

\* the table is one set away from both cases: one request leaves memory in
\* the warning band and stores without optimizing, another leaves it above
\* 95% and optimize_memory frees a fifth of the ceiling
C29_Witness ==
    /\ current_memory > 0
    /\ \E r \in StoringRequests :
          /\ Inserted(r).ok
          /\ AboveWarning(Inserted(r).S)
          /\ ~AboveCritical(Inserted(r).S)
          /\ SetLeaves(r).S = Inserted(r).S
    /\ \E r \in StoringRequests :
          /\ Inserted(r).ok
          /\ AboveCritical(Inserted(r).S)
          /\ TargetMet(SetLeaves(r).S.mem, Inserted(r).S.mem, max_memory_bytes)
          /\ SetLeaves(r).S.cache # <<>>

(***************************************************************************)
(* Claims about the compression rule of set.                               *)
(***************************************************************************)
SerializedSize(e) == len(pickle_dumps(Obj(e.value.id)))
CompressedSize(e) == len(gzip_compress(pickle_dumps(Obj(e.value.id))))

\* C30: set keeps the compressed form of a value iff its serialized size
\* exceeds compression_threshold and the compressed size is at most 80% of
\* the serialized size; the entry's compressed flag and size_bytes describe
\* the form stored.
C30_CompressionRule ==
    \A i \in 1..Len(cache) :
        LET e == cache[i] IN
        /\ e.compressed <=> (/\ SerializedSize(e) > compression_threshold
                             /\ 10 * CompressedSize(e) <= 8 * SerializedSize(e))
        /\ e.compressed <=> e.value.form = "gzipped"
        /\ e.size_bytes = len(e.value)

(***************************************************************************)
(* Claims about the entry count ceiling.                                   *)
(***************************************************************************)
NonCritical(c) == SelectSeq(c, LAMBDA e : e.priority # CRITICAL)
CountEvictions(steps) == SelectSeq(steps, LAMBDA s : s.cause = "lru")

Count(seq, x) == Cardinality({k \in 1..Len(seq) : seq[k] = x})
Done(i) == tasks[i].status = "done"
OneAttemptEach ==
    \A i \in 1..Len(tasks) :
        /\ Len(tasks) = Len(call.sources)
        /\ Pending(i) => tasks[i].attempts = <<>>
        /\ Done(i) => /\ Count(tasks[i].attempts, "bytes") = 1
                      /\ Count(tasks[i].attempts, "parser") <= 1
                      /\ tasks[i].attempts[1] = "bytes"

\* C32 as stated: within one collect call each source gets exactly one
\* byte-fetch attempt, and the feed parser fetches the URL itself at most
\* once and only when the byte fetch returned nil.
C32_ParserFetchOnlyOnNil ==
    /\ OneAttemptEach
    /\ \A i \in 1..Len(tasks) :
          (Done(i) /\ Count(tasks[i].attempts, "parser") > 0) => tasks[i].content = "None"

\* C32 (amended): within one collect call each source gets exactly one
\* byte-fetch attempt; the feed parser fetches the URL itself once exactly
\* when the byte fetch returned nil or an empty body; a source that failed in
\* the call before is attempted again like any other.
C32_ParserFetchOnFalsy ==
    /\ OneAttemptEach
    /\ \A i \in 1..Len(tasks) :
          Done(i) => (Count(tasks[i].attempts, "parser") = 1
                         <=> tasks[i].content \in {"None", ""})

\* a source that failed in the call before has been fetched once again, the
\* GET failed and the parser fetched the URL; another task of the call got
\* an empty body and the parser fetched its URL too
C32_Witness ==
    /\ pc = "gather"
    /\ \E i \in 1..Len(tasks) :
          /\ Done(i)
          /\ tasks[i].failed_before
          /\ tasks[i].content = "None"
          /\ tasks[i].attempts = <<"bytes", "parser">>
    /\ \E i \in 1..Len(tasks) :
          /\ Done(i)
          /\ tasks[i].content = ""
          /\ tasks[i].attempts = <<"bytes", "parser">>

\* a keyword of the list stands in the title or in the description
KeywordOccurs(entry) ==
    \/ \E i \in 1..Len(entry.title) : LowerChar(entry.title[i]) \in financial_keywords
    \/ \E i \in 1..Len(entry.description) :
          LowerChar(entry.description[i]) \in financial_keywords

\* the entries of a feed the loop can use: well-formed, with a title, relevant
Usable(entry, source_name) ==
    /\ ~entry.raises
    /\ entry.has_title
    /\ (source_name = "cafef_stocks" \/ KeywordOccurs(entry))
PositionIn(feed, item) == {j \in 1..Len(feed) : feed[j].link = item.link}

\* C33: the articles a task produces for its source come only from the first
\* limit_per_source entries of the feed, in the feed's order, at most
\* limit_per_source of them; an entry that is malformed or filtered out is
\* skipped and the entries after it are still processed.
C33_LimitAndOrder ==
    \A i \in 1..Len(tasks) :
        (Done(i) /\ tasks[i].outcome = "ok") =>
            LET feed == tasks[i].feed
                result == tasks[i].result
                source_name == call.sources[i]
            IN  /\ Len(result) <= call.limit
                /\ \A k \in 1..Len(result) :
                      \E j \in PositionIn(feed, result[k]) :
                          j <= call.limit /\ Usable(feed[j], source_name)
                /\ \A k, l \in 1..Len(result) :
                      k < l => \A j \in PositionIn(feed, result[k]) :
                                   \A m \in PositionIn(feed, result[l]) : j < m
                /\ \A j \in 1..Len(feed) :
                      (j <= call.limit /\ Usable(feed[j], source_name)) =>
                          \E k \in 1..Len(result) : result[k].link = feed[j].link

\* one task met an entry that raises, produced the next entry and left out
\* the third, which is past the limit; another produced two articles in the
\* order of its feed
C33_Witness ==
    /\ call.limit = 2
    /\ \E i \in 1..Len(tasks) :
          /\ Done(i)
          /\ tasks[i].feed = <<eM, eC, ea>>
          /\ Len(tasks[i].result) = 1
          /\ tasks[i].result[1].link = eC.link
    /\ \E i \in 1..Len(tasks) :
          /\ Done(i)
          /\ tasks[i].feed = <<ea, eA>>
          /\ Len(tasks[i].result) = 2
          /\ tasks[i].result[1].link = ea.link
          /\ tasks[i].result[2].link = eA.link

\* ---------------------------------------------------------------------------
\* C34  AI extractor guard.  The text of the AI is never what is returned when
\* it holds one of the fixed indicators, in either case of letters, or when the
\* call ran past its timeout: the fallback is returned in its place.  The AI
\* extractor only ever runs for a source flagged as international.
AiCalled == ext_pc = "done" /\ ext_call.mode = "gemini"
AiRefused(t) == t.timed_out \/ lower_text(t.marker) \in error_indicators
C34_AiExtractorGuard ==
    /\ AiCalled =>
          /\ is_international_source(ext_call.source_name)
          /\ \A i \in 1..Len(ext_tried) :
                AiRefused(ext_tried[i]) => ext_result.kind = "fallback"
    /\ \A i \in 1..Len(ext_tried) :
          ext_tried[i].strategy = "gemini" => is_international_source(ext_call.source_name)

\* a long text of the AI with the indicator in capitals was turned down
C34_Witness ==
    /\ AiCalled
    /\ Len(ext_tried) = 1
    /\ ext_tried[1].marker = "ACCESS DENIED"
    /\ ext_tried[1].len > MinGeminiLength
    /\ ext_result.kind = "fallback"

\* ---------------------------------------------------------------------------
\* C35  Relevance filter.  is_relevant_news is true for every entry of the
\* always-trusted source whatever its text; for any other source it is true
\* exactly when a keyword of the list occurs in the lower-cased title and
\* description; every article of another source in a result of the collect
\* call comes from an entry with a keyword.
FilteredEntries == {eA, ea, eB, eC, eD, eS, eE, eL, eK, eU}
C35_RelevanceFilter ==
    /\ \A e \in FilteredEntries :
          /\ is_relevant_news(strip(e.title), e.description, "cafef_stocks")
          /\ is_relevant_news(strip(e.title), e.description, "cnbc") <=> KeywordOccurs(e)
    /\ \A i \in 1..Len(tasks) :
          (Done(i) /\ call.sources[i] # "cafef_stocks") =>
             \A k \in 1..Len(tasks[i].result) :
                \E j \in 1..Len(tasks[i].feed) :
                   /\ tasks[i].feed[j].link = tasks[i].result[k].link
                   /\ KeywordOccurs(tasks[i].feed[j])

\* the other source's task kept the entry whose keyword is in the description
\* alone and the trusted source's task kept an entry without any keyword
C35_Witness ==
    /\ \E i \in 1..Len(tasks) :
          /\ Done(i) /\ call.sources[i] = "cnbc"
          /\ \E k \in 1..Len(tasks[i].result) : tasks[i].result[k].link = eK.link
    /\ \E i \in 1..Len(tasks) :
          /\ Done(i) /\ call.sources[i] = "cafef_stocks"
          /\ \E k \in 1..Len(tasks[i].result) : tasks[i].result[k].link = eC.link

(***************************************************************************)
(* Claims about a set that is refused and a set on a key already present.  *)
(***************************************************************************)
\* C36: a set that returns false leaves the cache as it was: no entry is
\* removed, the memory counter keeps its value, and the entry stored under
\* the same key before is still there for get.
C36_FailedSetLeavesCache ==
    \A r \in SetRequests :
        ~SetLeaves(r).ok =>
            /\ SetLeaves(r).S.cache = cache
            /\ SetLeaves(r).S.mem = current_memory
            /\ HasKey(cache, r.key) => HasKey(SetLeaves(r).S.cache, r.key)

\* C37: a set on a key already present, when the new value fits in memory
\* without eviction, removes no entry other than the old entry of that key,
\* also with the entry count at max_size, and leaves exactly one entry for
\* the key.
FitsWithoutEviction(r) ==
    current_memory + prepare_value(r.value, r.gzipOk).size_bytes <= max_memory_bytes
C37_UpdateInPlace ==
    \A r \in StoringRequests :
        (HasKey(cache, r.key) /\ FitsWithoutEviction(r)) =>
            LET after == Inserted(r).S.cache IN
            /\ Inserted(r).ok
            /\ \A i \in 1..Len(cache) : cache[i].key # r.key => HasKey(after, cache[i].key)
            /\ Cardinality({i \in 1..Len(after) : after[i].key = r.key}) = 1

(***************************************************************************)
(* Claims about the tag index.                                             *)
(***************************************************************************)
Carrying(c, tag) == {c[i].key : i \in {j \in 1..Len(c) : tag \in SeqToSet(c[j].tags)}}
UsedTags(c) == UNION {SeqToSet(c[i].tags) : i \in 1..Len(c)}

\* C38: after any sequence of cache operations the index holds for every
\* tag exactly the keys of the entries in the table that carry it, no tag of
\* the index has an empty set, and clear_by_tag(t) removes exactly the
\* entries that carry t and returns their number.
C38_TagIndex ==
    /\ DOMAIN tags_index = UsedTags(cache)
    /\ \A t \in DOMAIN tags_index :
          /\ tags_index[t] = Carrying(cache, t)
          /\ tags_index[t] # {}
    /\ \A t \in {"t", "u"} :
          LET r == clear_by_tag(StateRec, t) IN
          /\ r.count = Cardinality(Carrying(cache, t))
          /\ r.S.cache = SelectSeq(cache, LAMBDA e : e.key \notin Carrying(cache, t))

\* two entries under one tag, one of them under a second tag as well:
\* clearing the common tag removes both and returns 2
C38_Witness ==
    /\ DOMAIN tags_index = {"t", "u"}
    /\ tags_index["t"] = {"k1", "k2"}
    /\ Cardinality(tags_index["u"]) = 1
    /\ clear_by_tag(StateRec, "t").count = 2
    /\ clear_by_tag(StateRec, "t").S.cache = <<>>

(***************************************************************************)
(* Claims about the per-user result cache.                                 *)
(***************************************************************************)
NewsSaved == request_seq' = request_seq + 1
SessionExpired(user_id) == user_id \notin DOMAIN user_news_cache

ExecutedWithin(times, t) ==
    Cardinality({k \in 1..Len(times) : t <= times[k] /\ times[k] < t + rate_limit_window})
CommandRejected == rate_now' = rate_now /\ rate_reply'.message = "Rate limit exceeded"

\* C40: for one terminal session at most rate_limit_max commands are
\* accepted within any rate_limit_window; a further command inside the window
\* is answered 'Rate limit exceeded' and is neither counted nor executed.
C40_RateLimit ==
    /\ [](\A s \in TerminalSessions, t \in 0..MaxRateClock :
            ExecutedWithin(executed[s], t) <= rate_limit_max)
    /\ [][CommandRejected =>
            /\ executed' = executed
            /\ \A s \in TerminalSessions : Len(rate_limits'[s]) <= Len(rate_limits[s])]_vars

====
